---- MODULE Spec2Model ----
(***************************************************************************)
(* Model of the SRE investigation agent (LiamBush5/scout-v2).              *)
(*                                                                         *)
(*   - src/graph.py: the investigation state machine, a LangGraph          *)
(*     StateGraph  START -> agent -> {tools -> agent | END}  whose state   *)
(*     is AgentState (messages, phase, iteration, max_iterations,          *)
(*     recent_deployments, ...).                                           *)
(*   - src/apps/agent/src/tools/*.py and src/agent/src/tools/slack.py:     *)
(*     the tool catalogue.  A tool is modelled by its control flow over    *)
(*     the credential bag it closes over and the outcome of the external   *)
(*     API calls it makes.                                                 *)
(*                                                                         *)
(* The language model is an opaque environment: each reasoning step picks  *)
(* its response from a bounded set.  External APIs are an environment too: *)
(* each call either raises or returns data from a bounded set.             *)
(***************************************************************************)
EXTENDS Integers, Sequences, FiniteSets, TLC

VARIABLES
    pc,                 \* next node of the compiled graph: "agent", "tools" or "end"
    messages,           \* AgentState.messages (the message log)
    phase,              \* AgentState.phase
    iteration,          \* AgentState.iteration
    max_iterations,     \* AgentState.max_iterations
    recent_deployments, \* AgentState.recent_deployments
    creds,              \* the credentials create_investigation_graph was given
    cycles,             \* history: reasoning steps completed in this run
    phase_log,          \* history: the phase at creation and after each reasoning step
    invocation,         \* a single tool invocation (tool-level specification)
    llm_input,          \* history: the log handed to the model by the latest reasoning step
    outcome,            \* how run_investigation ended: its return value or an escaped exception
    prompt,             \* history: the HumanMessage the latest reasoning step built for the model
    cancelled,          \* history: the caller cancelled the task awaiting run_investigation
    peer,               \* AgentState of a second investigation running in the same process
    identity,           \* AgentState.investigation_id, org_id, alert_context, started_at
    affected_services   \* AgentState.affected_services

vars == <<pc, messages, phase, iteration, max_iterations, recent_deployments,
          creds, cycles, phase_log, invocation, llm_input, outcome, prompt,
          cancelled, peer, identity, affected_services>>

loop_vars == <<pc, messages, phase, iteration, max_iterations,
               recent_deployments, creds, cycles, phase_log, llm_input, outcome,
               prompt, cancelled, peer, identity, affected_services>>

-----------------------------------------------------------------------------
(* Program constants                                                       *)

MAX_ITERATIONS == 15

DeploymentCap == 20

ToolDeploymentLimit == 10

ContextDeployments == 5

SummaryMinLen == 50

TriageThreshold == 2

ChangesThreshold == 5

HypothesisThreshold == 10

WarningWindow == 3

-----------------------------------------------------------------------------
(* Bounds of the model                                                     *)

\* budgets 0..MaxBudget are explored with the full set of responses
MaxBudget == 3

\* number of disjoint deployment feeds the external APIs may return
NumFeeds == 3

\* records an external API returns in one feed (the tools keep the first 10)
FeedLen == 11

\* largest starting iteration of the deep specification
MaxStart == 11

\* budgets 0..MAX_ITERATIONS+BudgetSlack are explored by the deep specification
BudgetSlack == 1

-----------------------------------------------------------------------------
(* Small helpers                                                           *)

Min(a, b) == IF a <= b THEN a ELSE b

Max(a, b) == IF a >= b THEN a ELSE b

\* Python s[:n]
Take(s, n) == SubSeq(s, 1, Min(n, Len(s)))

\* Python x in s
In(x, s) == \E i \in 1..Len(s) : s[i] = x

Phases == <<"triage", "changes", "hypothesis", "conclusion">>

PhaseSet == {Phases[i] : i \in 1..Len(Phases)}

PhaseRank(p) == CHOOSE i \in 1..Len(Phases) : Phases[i] = p
-----------------------------------------------------------------------------
(* Tool catalogue                                                          *)

DatadogTools == {"get_monitor_details", "get_apm_service_summary",
                 "query_metrics", "search_logs", "get_datadog_events"}

GithubTools == {"get_recent_deployments", "get_deployment_commits",
                "get_recent_commits"}

SlackTools == {"send_investigation_result", "send_investigation_update"}

MemoryTools == {"search_similar_incidents", "get_incident_details",
                "get_service_incident_history", "detect_patterns_and_suggest"}

RunbookTools == {"find_matching_runbooks", "get_runbook_recommendation",
                 "record_runbook_execution"}

\* tools built from a credential bag passed by the caller
CredentialTools == DatadogTools \cup GithubTools \cup SlackTools

\* tools that read their key from the process environment
StoreTools == MemoryTools \cup RunbookTools

AllTools == CredentialTools \cup StoreTools

Providers == {"datadog", "github", "slack"}

Provider(tool) ==
    IF tool \in DatadogTools THEN "datadog"
    ELSE IF tool \in GithubTools THEN "github"
    ELSE IF tool \in SlackTools THEN "slack"
    ELSE "supabase"

\* A credential bag: None, {}, a dict lacking a required key, a complete dict.
CredValues == {"none", "empty", "partial", "full"}

\* Python truthiness of the bag: `if not credentials`
Falsy(cred) == cred \in {"none", "empty"}

\* credentials["api_key"] and the like succeed
HasKeys(cred) == cred = "full"

-----------------------------------------------------------------------------
(* Texts.  A text is a sequence of tokens so that substring questions are  *)
(* decided by the text itself.                                             *)

Contains(text, phrase) ==
    \E i \in 0..(Len(text) - Len(phrase)) :
        SubSeq(text, i + 1, i + Len(phrase)) = phrase

NotConfiguredPhrase == <<"not", "configured">>

DatadogNotConfigured ==
    <<"Datadog", "not", "configured", ".",
      "Please add Datadog credentials (api_key, app_key) in integrations settings.">>

GithubNotConfigured ==
    <<"GitHub", "not", "configured", ".",
      "Please add GitHub App credentials (app_id, private_key, installation_id) in integrations settings.">>

SlackNotConfigured ==
    <<"Slack", "not", "configured", ".",
      "Please add Slack credentials (bot_token, channel_id) in integrations settings.">>

\* str(e) of an exception raised by a subscript on the credential bag
KeyErrorText == <<"'api_key'">>

\* str(e) of an exception raised by an external API call
ApiErrorText == <<"upstream", "error">>

\* str(e) of the ValueError get_supabase_client raises without a key
SupabaseKeyErrorText == <<"SUPABASE_SERVICE_ROLE_KEY", "required">>

-----------------------------------------------------------------------------
(* Tool results.  The content of a result is what json.dumps / the f-string *)
(* of the tool produces; calls and failed count the external API calls the  *)
(* invocation attempted and those of them that raised.                      *)

JsonFail(err) ==
    [fmt |-> "json", success |-> "false", error |-> err, text |-> <<>>,
     deployments |-> <<>>, services |-> <<>>]

JsonOk(deps) ==
    [fmt |-> "json", success |-> "true", error |-> <<>>, text |-> <<>>,
     deployments |-> deps, services |-> <<>>]

PlainText(t) ==
    [fmt |-> "text", success |-> "absent", error |-> <<>>, text |-> t,
     deployments |-> <<>>, services |-> <<>>]

Returned(content, calls, failed) ==
    [raised |-> FALSE, exc |-> <<>>, content |-> content,
     calls |-> calls, failed |-> failed]

Raised(exc, calls, failed) ==
    [raised |-> TRUE, exc |-> exc, content |-> PlainText(<<>>),
     calls |-> calls, failed |-> failed]

\* mutant: the handler returns the bare exception text
JsonBoundary_text(o) ==
    IF o.raised THEN Returned(PlainText(o.exc), o.calls, o.failed) ELSE o

\* `except Exception as e: return json.dumps({"success": False, "error": str(e)})`
JsonBoundary(o) ==
    IF o.raised THEN Returned(JsonFail(o.exc), o.calls, o.failed) ELSE o

\* `except Exception as e: return f"Error ...: {str(e)}"`
TextBoundary(prefix, o) ==
    IF o.raised THEN Returned(PlainText(<<prefix>> \o o.exc), o.calls, o.failed)
    ELSE o

\* The external world seen by one invocation: the indices of the external
\* calls that raise, and the records the (last) read returns.
FirstFail(n, ext) ==
    IF \E k \in 1..n : k \in ext.fails
    THEN CHOOSE k \in 1..n : k \in ext.fails /\ \A j \in 1..(k - 1) : j \notin ext.fails
    ELSE 0

\* n external calls made one after the other inside one try block
Sequential(n, ext, content) ==
    LET k == FirstFail(n, ext)
    IN  IF k = 0 THEN Returned(content, n, 0) ELSE Raised(ApiErrorText, k, 1)

-----------------------------------------------------------------------------
(* Datadog tools (src/apps/agent/src/tools/datadog.py).  Each checks the   *)
(* credential bag, then builds the API configuration and calls the API     *)
(* inside one try block.                                                   *)

\* mutant: the credential check is missing
get_monitor_details_unguarded(cred, ext) ==
    JsonBoundary(
        IF ~HasKeys(cred) THEN Raised(KeyErrorText, 0, 0)
        ELSE Sequential(1, ext, JsonOk(<<>>)))

get_monitor_details(cred, ext) ==
    IF Falsy(cred) THEN Returned(JsonFail(DatadogNotConfigured), 0, 0)
    ELSE JsonBoundary(
            IF ~HasKeys(cred) THEN Raised(KeyErrorText, 0, 0)
            ELSE Sequential(1, ext, JsonOk(<<>>)))

\* the service_name argument of the explored get_apm_service_summary calls
QueriedService == "payments"

\* the result of get_apm_service_summary names the service it summarises
ServiceSummary(service_name) ==
    [JsonOk(<<>>) EXCEPT !.services = <<service_name>>]

\* The three metric queries are each wrapped in a bare `except:` that stores
\* None for the metric, so a failing query does not reach the outer handler.
get_apm_service_summary(cred, ext) ==
    IF Falsy(cred) THEN Returned(JsonFail(DatadogNotConfigured), 0, 0)
    ELSE JsonBoundary(
            IF ~HasKeys(cred) THEN Raised(KeyErrorText, 0, 0)
            ELSE Returned(ServiceSummary(QueriedService), 3,
                          Cardinality(ext.fails \cap (1..3))))

query_metrics(cred, ext) ==
    IF Falsy(cred) THEN Returned(JsonFail(DatadogNotConfigured), 0, 0)
    ELSE JsonBoundary(
            IF ~HasKeys(cred) THEN Raised(KeyErrorText, 0, 0)
            ELSE Sequential(1, ext, JsonOk(<<>>)))

search_logs(cred, ext) ==
    IF Falsy(cred) THEN Returned(JsonFail(DatadogNotConfigured), 0, 0)
    ELSE JsonBoundary(
            IF ~HasKeys(cred) THEN Raised(KeyErrorText, 0, 0)
            ELSE Sequential(1, ext, JsonOk(<<>>)))

\* ext.data: the deployment-like events of the response, in response order
get_datadog_events(cred, ext) ==
    IF Falsy(cred) THEN Returned(JsonFail(DatadogNotConfigured), 0, 0)
    ELSE JsonBoundary(
            IF ~HasKeys(cred) THEN Raised(KeyErrorText, 0, 0)
            ELSE Sequential(1, ext, JsonOk(Take(ext.data, ToolDeploymentLimit))))

-----------------------------------------------------------------------------
(* GitHub tools (src/apps/agent/src/tools/github.py): installation token,  *)
(* repository lookup, then the listing, all inside one try block.          *)

\* ext.data: the deployments newer than the cutoff, newest first
get_recent_deployments(cred, ext) ==
    IF Falsy(cred) THEN Returned(JsonFail(GithubNotConfigured), 0, 0)
    ELSE JsonBoundary(
            IF ~HasKeys(cred) THEN Raised(KeyErrorText, 0, 0)
            ELSE Sequential(3, ext, JsonOk(Take(ext.data, ToolDeploymentLimit))))

get_deployment_commits(cred, ext) ==
    IF Falsy(cred) THEN Returned(JsonFail(GithubNotConfigured), 0, 0)
    ELSE JsonBoundary(
            IF ~HasKeys(cred) THEN Raised(KeyErrorText, 0, 0)
            ELSE Sequential(3, ext, JsonOk(<<>>)))

get_recent_commits(cred, ext) ==
    IF Falsy(cred) THEN Returned(JsonFail(GithubNotConfigured), 0, 0)
    ELSE JsonBoundary(
            IF ~HasKeys(cred) THEN Raised(KeyErrorText, 0, 0)
            ELSE Sequential(3, ext, JsonOk(<<>>)))

-----------------------------------------------------------------------------
(* Slack tools (src/agent/src/tools/slack.py): one chat_postMessage call.  *)

\* mutant: a failed post is attempted a second time
send_investigation_result_retry(cred, ext) ==
    IF Falsy(cred) THEN Returned(JsonFail(SlackNotConfigured), 0, 0)
    ELSE JsonBoundary(
            IF ~HasKeys(cred) THEN Raised(KeyErrorText, 0, 0)
            ELSE IF 1 \notin ext.fails THEN Returned(JsonOk(<<>>), 1, 0)
            ELSE IF 2 \notin ext.fails THEN Returned(JsonOk(<<>>), 2, 1)
            ELSE Raised(ApiErrorText, 2, 2))

send_investigation_result(cred, ext) ==
    IF Falsy(cred) THEN Returned(JsonFail(SlackNotConfigured), 0, 0)
    ELSE JsonBoundary(
            IF ~HasKeys(cred) THEN Raised(KeyErrorText, 0, 0)
            ELSE Sequential(1, ext, JsonOk(<<>>)))

send_investigation_update(cred, ext) ==
    IF Falsy(cred) THEN Returned(JsonFail(SlackNotConfigured), 0, 0)
    ELSE JsonBoundary(
            IF ~HasKeys(cred) THEN Raised(KeyErrorText, 0, 0)
            ELSE Sequential(1, ext, JsonOk(<<>>)))

-----------------------------------------------------------------------------
(* Incident-memory tools (src/apps/agent/src/tools/memory.py).  They take  *)
(* no credential bag: get_supabase_client reads the service key from the   *)
(* environment and raises ValueError when it is missing.  Every return is  *)
(* a formatted text.  ext.data: the rows the query returns.                *)

search_similar_incidents(key, ext) ==
    TextBoundary("Error searching incidents:",
        IF Falsy(key) THEN Raised(SupabaseKeyErrorText, 0, 0)
        ELSE Sequential(1, ext,
                IF ext.data = <<>>
                THEN PlainText(<<"No similar incidents found">>)
                ELSE PlainText(<<"Found", "similar incident(s)">>)))

get_incident_details(key, ext) ==
    TextBoundary("Error fetching incident details:",
        IF Falsy(key) THEN Raised(SupabaseKeyErrorText, 0, 0)
        ELSE Sequential(1, ext,
                IF ext.data = <<>>
                THEN PlainText(<<"Incident", "not found.">>)
                ELSE PlainText(<<"## Incident Details">>)))

get_service_incident_history(key, ext) ==
    TextBoundary("Error analyzing service history:",
        IF Falsy(key) THEN Raised(SupabaseKeyErrorText, 0, 0)
        ELSE Sequential(1, ext,
                IF ext.data = <<>>
                THEN PlainText(<<"No incidents found for service">>)
                ELSE PlainText(<<"## Incident History">>)))

detect_patterns_and_suggest(key, ext) ==
    TextBoundary("Error detecting patterns:",
        IF Falsy(key) THEN Raised(SupabaseKeyErrorText, 0, 0)
        ELSE Sequential(1, ext,
                IF Len(ext.data) < 2
                THEN PlainText(<<"Not enough incident data to detect patterns.">>)
                ELSE PlainText(<<"## Pattern Analysis">>)))

-----------------------------------------------------------------------------
(* Runbook tools (src/apps/agent/src/tools/runbooks.py): same shape as the *)
(* memory tools.  record_runbook_execution reads the runbook, inserts an   *)
(* execution record and updates the runbook's counters: three calls.       *)

find_matching_runbooks(key, ext) ==
    TextBoundary("Error finding runbooks:",
        IF Falsy(key) THEN Raised(SupabaseKeyErrorText, 0, 0)
        ELSE Sequential(1, ext,
                IF ext.data = <<>>
                THEN PlainText(<<"No runbooks configured.">>)
                ELSE PlainText(<<"Found", "matching runbook(s)">>)))

get_runbook_recommendation(key, ext) ==
    TextBoundary("Error getting recommendation:",
        IF Falsy(key) THEN Raised(SupabaseKeyErrorText, 0, 0)
        ELSE Sequential(1, ext,
                IF ext.data = <<>>
                THEN PlainText(<<"Runbook", "not found.">>)
                ELSE PlainText(<<"**Recommendation**">>)))

record_runbook_execution(key, ext) ==
    TextBoundary("Error recording execution:",
        IF Falsy(key) THEN Raised(SupabaseKeyErrorText, 0, 0)
        ELSE IF 1 \in ext.fails THEN Raised(ApiErrorText, 1, 1)
        ELSE IF ext.data = <<>>
             THEN Returned(PlainText(<<"Runbook", "not found.", "Execution not recorded.">>), 1, 0)
        ELSE Sequential(3, ext, PlainText(<<"Runbook execution recorded">>)))

-----------------------------------------------------------------------------
(* Dispatch by name: the @tool callables of the catalogue.                 *)

InvokeTool(tool, cred, ext) ==
    CASE tool = "get_monitor_details"          -> get_monitor_details(cred, ext)
      [] tool = "get_apm_service_summary"      -> get_apm_service_summary(cred, ext)
      [] tool = "query_metrics"                -> query_metrics(cred, ext)
      [] tool = "search_logs"                  -> search_logs(cred, ext)
      [] tool = "get_datadog_events"           -> get_datadog_events(cred, ext)
      [] tool = "get_recent_deployments"       -> get_recent_deployments(cred, ext)
      [] tool = "get_deployment_commits"       -> get_deployment_commits(cred, ext)
      [] tool = "get_recent_commits"           -> get_recent_commits(cred, ext)
      [] tool = "send_investigation_result"    -> send_investigation_result(cred, ext)
      [] tool = "send_investigation_update"    -> send_investigation_update(cred, ext)
      [] tool = "search_similar_incidents"     -> search_similar_incidents(cred, ext)
      [] tool = "get_incident_details"         -> get_incident_details(cred, ext)
      [] tool = "get_service_incident_history" -> get_service_incident_history(cred, ext)
      [] tool = "detect_patterns_and_suggest"  -> detect_patterns_and_suggest(cred, ext)
      [] tool = "find_matching_runbooks"       -> find_matching_runbooks(cred, ext)
      [] tool = "get_runbook_recommendation"   -> get_runbook_recommendation(cred, ext)
      [] tool = "record_runbook_execution"     -> record_runbook_execution(cred, ext)

-----------------------------------------------------------------------------
(* Messages of the log (AgentState.messages).  len is the length of the    *)
(* text of an assistant message; the loop never measures a tool message.   *)

AIMessage(calls, len) ==
    [type |-> "ai", tool_calls |-> calls, name |-> "", len |-> len,
     content |-> PlainText(<<>>)]

ToolMessage(name, content) ==
    [type |-> "tool", tool_calls |-> <<>>, name |-> name, len |-> 0,
     content |-> content]

\* mutant: the channel has no reducer, a write replaces the log
add_messages_overwrite(log, new) == new

\* the add_messages reducer on messages with fresh ids
add_messages(log, new) == log \o new

Last(s) == s[Len(s)]

-----------------------------------------------------------------------------
(* create_investigation_graph: the tools bound to the model and handed to  *)
(* ToolNode are those of the providers whose credentials are truthy.       *)

\* mutant: every credential tool is registered whatever the credentials
Tools_always(c) == CredentialTools

Tools(c) ==
    (IF ~Falsy(c.datadog) THEN DatadogTools ELSE {})
    \cup (IF ~Falsy(c.github) THEN GithubTools ELSE {})
    \cup (IF ~Falsy(c.slack) THEN SlackTools ELSE {})

\* tool_node = ToolNode(tools) if tools else None
ToolNodeIsNone(c) == Tools(c) = {}

\* ToolNode's answer to a call naming a tool it does not hold
InvalidToolText == <<"Error:", "not a valid tool">>

\* ToolNode.invoke: one ToolMessage per tool call of the last assistant
\* message, in call order
\* mutant: the results that report a failure are left out of the answer
ToolNodeInvoke_drop_failures(c, calls, exts) ==
    LET IsNotFailure(m) == m.content.success # "false"
    IN  SelectSeq(
            [i \in 1..Len(calls) |->
                IF calls[i] \in Tools(c)
                THEN ToolMessage(calls[i],
                         InvokeTool(calls[i], c[Provider(calls[i])], exts[i]).content)
                ELSE ToolMessage(calls[i], PlainText(<<"Error:", "not a valid tool">>))],
            IsNotFailure)

\* mutant: every call is dispatched a second time
ToolNodeInvoke_twice(c, calls, exts) ==
    [i \in 1..(2 * Len(calls)) |->
        LET j == ((i - 1) % Len(calls)) + 1
        IN  IF calls[j] \in Tools(c)
            THEN ToolMessage(calls[j],
                     InvokeTool(calls[j], c[Provider(calls[j])], exts[j]).content)
            ELSE ToolMessage(calls[j], PlainText(InvalidToolText))]

ToolNodeInvoke(c, calls, exts) ==
    [i \in 1..Len(calls) |->
        IF calls[i] \in Tools(c)
        THEN ToolMessage(calls[i],
                 InvokeTool(calls[i], c[Provider(calls[i])], exts[i]).content)
        ELSE ToolMessage(calls[i], PlainText(InvalidToolText))]

-----------------------------------------------------------------------------
(* agent_node: phase transition table                                      *)

\* mutant: independent `if`s instead of the elif chain
advance_fallthrough(p, it) ==
    LET p1 == IF p = "triage" /\ it >= TriageThreshold THEN "changes" ELSE p
        p2 == IF p1 = "changes" /\ it >= ChangesThreshold THEN "hypothesis" ELSE p1
    IN  IF p2 = "hypothesis" /\ it >= HypothesisThreshold THEN "conclusion" ELSE p2

\* mutant: the thresholds are compared with the incremented counter
advance_post_increment(p, it) ==
    IF p = "triage" /\ it + 1 >= TriageThreshold THEN "changes"
    ELSE IF p = "changes" /\ it + 1 >= ChangesThreshold THEN "hypothesis"
    ELSE IF p = "hypothesis" /\ it + 1 >= HypothesisThreshold THEN "conclusion"
    ELSE p

\* mutant: the thresholds are compared with > instead of >=
advance_strict(p, it) ==
    IF p = "triage" /\ it > TriageThreshold THEN "changes"
    ELSE IF p = "changes" /\ it > ChangesThreshold THEN "hypothesis"
    ELSE IF p = "hypothesis" /\ it > HypothesisThreshold THEN "conclusion"
    ELSE p

\* mutant: the last transition is missing
advance_no_conclusion(p, it) ==
    IF p = "triage" /\ it >= TriageThreshold THEN "changes"
    ELSE IF p = "changes" /\ it >= ChangesThreshold THEN "hypothesis"
    ELSE p

advance(p, it) ==
    IF p = "triage" /\ it >= TriageThreshold THEN "changes"
    ELSE IF p = "changes" /\ it >= ChangesThreshold THEN "hypothesis"
    ELSE IF p = "hypothesis" /\ it >= HypothesisThreshold THEN "conclusion"
    ELSE p

(* should_continue: the conditional edge out of the agent node             *)

\* mutant: the iteration cap is never consulted
should_continue_no_cap(msgs, it, max_iter, ph) ==
    IF msgs # <<>> /\ Last(msgs).type = "ai" /\ Last(msgs).tool_calls # <<>>
    THEN "tools"
    ELSE "end"

\* mutant: the cap is compared with > instead of >=
should_continue_off_by_one(msgs, it, max_iter, ph) ==
    IF it > max_iter THEN "end"
    ELSE IF msgs # <<>> /\ Last(msgs).type = "ai" /\ Last(msgs).tool_calls # <<>>
         THEN "tools"
    ELSE "end"

\* mutant: pending tool calls are looked at before the cap
should_continue_calls_first(msgs, it, max_iter, ph) ==
    IF msgs # <<>> /\ Last(msgs).type = "ai" /\ Last(msgs).tool_calls # <<>>
    THEN "tools"
    ELSE IF it >= max_iter THEN "end"
    ELSE "end"

\* mutant: a message without tool calls is routed to the tool node
should_continue_always_tools(msgs, it, max_iter, ph) ==
    IF it >= max_iter THEN "end" ELSE "tools"

should_continue(msgs, it, max_iter, ph) ==
    IF it >= max_iter THEN "end"
    ELSE IF msgs # <<>> /\ Last(msgs).type = "ai" /\ Last(msgs).tool_calls # <<>>
         THEN "tools"
    ELSE IF ph = "conclusion" THEN "end"
    ELSE "end"

(* tools_node: merge of the deployments found in the tool results          *)

\* mutant: every record is appended, present or not
MergeDeployments_no_dedup(acc, ds) == acc \o ds

RECURSIVE MergeDeployments(_, _)
\* for d in content["deployments"]: if d not in new_deployments: append
\* (one turn of the loop: list and d are the values of new_deployments and
\* of the loop variable at that turn)
MergeDeployments(acc, ds) ==
    IF ds = <<>> THEN acc
    ELSE CHOOSE out \in
            { MergeDeployments(IF In(d, list) THEN list ELSE Append(list, d),
                               Tail(ds)) : list \in {acc}, d \in {Head(ds)} } : TRUE

\* json.loads(msg.content) raises on a text that is not JSON: the bare
\* except skips the message
HasDeployments(content) == content.fmt = "json" /\ content.deployments # <<>>

RECURSIVE MergeResults(_, _)
MergeResults(acc, msgs) ==
    IF msgs = <<>> THEN acc
    ELSE MergeResults(
            IF HasDeployments(Head(msgs).content)
            THEN MergeDeployments(acc, Head(msgs).content.deployments)
            ELSE acc,
            Tail(msgs))

\* mutant: the list is returned untruncated
Truncate_none(ds) == ds

\* "recent_deployments": new_deployments[:20]
Truncate(ds) == Take(ds, DeploymentCap)

-----------------------------------------------------------------------------
(* The two nodes of the graph as actions.  A step of the compiled graph    *)
(* runs the node, applies its writes and evaluates the outgoing edge.      *)

NoInvocation == [state |-> "idle"]

\* run_investigation has not ended
NoOutcome == [kind |-> "none"]

\* the tool calls ToolNode reads from the last assistant message of the state
PendingCalls ==
    IF messages # <<>> /\ Last(messages).type = "ai"
    THEN Last(messages).tool_calls ELSE <<>>

\* no reasoning step has built a prompt yet
NoPrompt == [kind |-> "none"]

\* no second investigation is running
NoPeer == [pc |-> "absent"]

\* alert_context.get("service") when the alert names no service
NoService == "none"

\* alert_context as run_investigation receives it
AlertContext(service) == [alert_name |-> "alert", service |-> service]

\* the fields of the initial state that name the investigation
Identity(service) ==
    [investigation_id |-> "investigation", org_id |-> "org",
     alert_context |-> AlertContext(service), started_at |-> "start_time"]

\* affected_services of the initial state
InitialServices(alert) ==
    IF alert.service \in {NoService, ""} THEN <<>> ELSE <<alert.service>>

(* agent_node: the HumanMessage placed between the system prompt and the   *)
(* log                                                                     *)

\* for d in deployments[:5]: the records rendered under "Recent
\* Deployments Found"
deploy_list(deployments) == Take(deployments, ContextDeployments)

\* mutant: the warning starts one cycle late
LimitApproaching_late(it, max_iter) == it > max_iter - WarningWindow

\* if iteration >= max_iter - 3: context += the warning
LimitApproaching(it, max_iter) == it >= max_iter - WarningWindow

\* the context block: status, alert, deployments (if any), phase goal,
\* warning
Context(ph, it, max_iter, deployments) ==
    [kind |-> "context", phase |-> ph, iteration |-> it,
     max_iterations |-> max_iter, alert |-> "alert context",
     deployments |-> deploy_list(deployments), goal |-> ph,
     warning |-> LimitApproaching(it, max_iter)]

\* "A Datadog alert has fired. Begin investigation. ..."
BeginInvestigation ==
    [kind |-> "begin", alert |-> "alert context", warning |-> FALSE]

\* mutant: the begin instruction is sent while no message is in the log
\* yet, whatever the counter
HumanMessage_every_early_cycle(ph, it, max_iter, deployments) ==
    IF it <= 1 THEN BeginInvestigation
    ELSE Context(ph, it, max_iter, deployments)

\* if iteration == 0: the begin instruction, else: the context block
HumanMessage(ph, it, max_iter, deployments) ==
    IF it = 0 THEN BeginInvestigation
    ELSE Context(ph, it, max_iter, deployments)

\* mutant: the counter is advanced twice by a reasoning step
agent_node_double_increment(response) ==
    /\ pc = "agent"
    /\ messages' = add_messages(messages, <<response>>)
    /\ iteration' = iteration + 2
    /\ phase' = advance(phase, iteration)
    /\ pc' = should_continue(messages', iteration', max_iterations, phase')
    /\ cycles' = cycles + 1
    /\ phase_log' = Append(phase_log, phase')
    /\ llm_input' = messages
    /\ prompt' = HumanMessage(phase, iteration, max_iterations, recent_deployments)
    /\ UNCHANGED <<max_iterations, recent_deployments, creds, invocation, outcome,
                   cancelled, peer, identity, affected_services>>

agent_node(response) ==
    /\ pc = "agent"
    /\ messages' = add_messages(messages, <<response>>)
    /\ iteration' = iteration + 1
    /\ phase' = advance(phase, iteration)
    /\ pc' = should_continue(messages', iteration', max_iterations, phase')
    /\ cycles' = cycles + 1
    /\ phase_log' = Append(phase_log, phase')
    /\ llm_input' = messages
    /\ prompt' = HumanMessage(phase, iteration, max_iterations, recent_deployments)
    /\ UNCHANGED <<max_iterations, recent_deployments, creds, invocation, outcome,
                   cancelled, peer, identity, affected_services>>

\* mutant: a tool step also advances the iteration counter
tools_node_counts_iteration(exts) ==
    /\ pc = "tools"
    /\ IF ToolNodeIsNone(creds)
       THEN /\ messages' = add_messages(messages, <<>>)
            /\ UNCHANGED recent_deployments
       ELSE LET result == ToolNodeInvoke(creds, PendingCalls, exts)
            IN  /\ messages' = add_messages(messages, result)
                /\ recent_deployments' =
                       Truncate(MergeResults(recent_deployments, result))
    /\ pc' = "agent"
    /\ iteration' = iteration + 1
    /\ UNCHANGED <<phase, max_iterations, creds, cycles, phase_log,
                   invocation, llm_input, outcome, prompt, cancelled, peer,
                   identity, affected_services>>

tools_node(exts) ==
    /\ pc = "tools"
    /\ IF ToolNodeIsNone(creds)
       THEN /\ messages' = add_messages(messages, <<>>)
            /\ UNCHANGED recent_deployments
       ELSE LET result == ToolNodeInvoke(creds, PendingCalls, exts)
            IN  /\ messages' = add_messages(messages, result)
                /\ recent_deployments' =
                       Truncate(MergeResults(recent_deployments, result))
    /\ pc' = "agent"
    /\ UNCHANGED <<phase, iteration, max_iterations, creds, cycles, phase_log,
                   invocation, llm_input, outcome, prompt, cancelled, peer,
                   identity, affected_services>>

-----------------------------------------------------------------------------
(* Environment: what the language model may answer and what the external   *)
(* APIs may return.                                                        *)

\* the tools the model requests in the explored runs: one that reports
\* deployments and one that only posts
LoopTools == {"get_recent_deployments", "send_investigation_result"}

\* an assistant message requests the Slack report alone, or the deployment
\* tool followed by one more call in the same turn
CallSeqs ==
    {<<"send_investigation_result">>}
    \cup {<<"get_recent_deployments", t>> : t \in LoopTools}

\* a final answer is either at most or more than SummaryMinLen characters long
FinalResponses == {AIMessage(<<>>, n) : n \in {SummaryMinLen, SummaryMinLen + 1}}

\* a tool-call message carries a long text beside its calls
CallResponses == {AIMessage(c, SummaryMinLen + 1) : c \in CallSeqs}

Responses == FinalResponses \cup CallResponses

\* the k-th feed of deployment records: FeedLen consecutive records, the
\* feeds ToolDeploymentLimit apart, so that the first ToolDeploymentLimit
\* records of different feeds are distinct
Feed(k) == [i \in 1..FeedLen |-> ToolDeploymentLimit * k + i]

\* one response repeating a record
RepeatingFeed == <<1, 1>>

Feeds == {Feed(k) : k \in 0..(NumFeeds - 1)} \cup {RepeatingFeed}

ApiRaises == [fails |-> {1}, data |-> <<>>]

ApiReturns(d) == [fails |-> {}, data |-> d]

LoopExts(tool) ==
    IF tool = "get_recent_deployments"
    THEN {ApiRaises} \cup {ApiReturns(f) : f \in Feeds}
    ELSE {ApiRaises, ApiReturns(<<>>)}

ExtSeqs(calls) ==
    {e \in [1..Len(calls) -> UNION {LoopExts(t) : t \in LoopTools}] :
        \A i \in 1..Len(calls) : e[i] \in LoopExts(calls[i])}

-----------------------------------------------------------------------------
(* Spec: runs as run_investigation starts them (empty log, phase triage,   *)
(* iteration 0, no deployments), for every budget up to MaxBudget and      *)
(* every configuration of the three credential bags.                       *)

\* The Datadog bag decides only whether any tool exists (no explored call
\* names a Datadog tool), so it is varied where the other two are None.
CredConfigs ==
    {c \in [Providers -> {"none", "full"}] :
        c.datadog = "full" => (c.github = "none" /\ c.slack = "none")}

Init ==
    /\ pc = "agent"
    /\ messages = <<>>
    /\ phase = "triage"
    /\ iteration = 0
    /\ max_iterations \in 0..MaxBudget
    /\ recent_deployments = <<>>
    /\ creds \in CredConfigs
    /\ cycles = 0
    /\ phase_log = <<phase>>
    /\ invocation = NoInvocation
    /\ llm_input = <<>>
    /\ outcome = NoOutcome
    /\ prompt = NoPrompt
    /\ cancelled = FALSE
    /\ peer = NoPeer
    /\ identity = Identity(NoService)
    /\ affected_services = InitialServices(identity.alert_context)

AgentStep == \E r \in Responses : agent_node(r)

ToolsStep == \E exts \in ExtSeqs(PendingCalls) : tools_node(exts)

Next == AgentStep \/ ToolsStep

Spec == Init /\ [][Next]_vars

-----------------------------------------------------------------------------
(* DeepSpec: the compiled graph invoked on any starting iteration and      *)
(* phase, for every budget up to the default MAX_ITERATIONS and beyond.    *)
(* To reach that depth the model either gives its final answer or requests *)
(* the deployment tool, and the API returns the first feed.                *)

DeepResponses ==
    {AIMessage(<<>>, SummaryMinLen + 1),
     AIMessage(<<"get_recent_deployments">>, SummaryMinLen + 1)}

DeepInit ==
    /\ pc = "agent"
    /\ messages = <<>>
    /\ phase \in PhaseSet
    /\ iteration \in 0..MaxStart
    /\ max_iterations \in 0..(MAX_ITERATIONS + BudgetSlack)
    /\ recent_deployments = <<>>
    /\ creds = [p \in Providers |-> "full"]
    /\ cycles = 0
    /\ phase_log = <<phase>>
    /\ invocation = NoInvocation
    /\ llm_input = <<>>
    /\ outcome = NoOutcome
    /\ prompt = NoPrompt
    /\ cancelled = FALSE
    /\ peer = NoPeer
    /\ identity = Identity(NoService)
    /\ affected_services = InitialServices(identity.alert_context)

DeepAgentStep == \E r \in DeepResponses : agent_node(r)

DeepToolsStep == tools_node([i \in 1..Len(PendingCalls) |-> ApiReturns(Feed(0))])

DeepNext == DeepAgentStep \/ DeepToolsStep

DeepSpec == DeepInit /\ [][DeepNext]_vars

\* Every reasoning step and every tool dispatch returns: the graph runner
\* always executes the node the last edge selected.
DeepFairSpec == DeepSpec /\ WF_vars(DeepNext)

-----------------------------------------------------------------------------
(* ToolSpec: one invocation of one tool of the catalogue, for every        *)
(* credential bag and every behaviour of the external API.                 *)

ToolExts ==
    {[fails |-> f, data |-> d] :
        f \in SUBSET (1..3), d \in {<<>>, <<1>>, Feed(0)}}

ToolInit ==
    /\ pc = "end"
    /\ messages = <<>>
    /\ phase = "triage"
    /\ iteration = 0
    /\ max_iterations = MAX_ITERATIONS
    /\ recent_deployments = <<>>
    /\ creds = [p \in Providers |-> "none"]
    /\ cycles = 0
    /\ phase_log = <<phase>>
    /\ llm_input = <<>>
    /\ outcome = NoOutcome
    /\ prompt = NoPrompt
    /\ cancelled = FALSE
    /\ peer = NoPeer
    /\ identity = Identity(NoService)
    /\ affected_services = InitialServices(identity.alert_context)
    /\ \E t \in AllTools, c \in CredValues, e \in ToolExts :
          invocation = [state |-> "called", tool |-> t, cred |-> c, ext |-> e,
                        result |-> Returned(PlainText(<<>>), 0, 0)]

ToolCall ==
    /\ invocation.state = "called"
    /\ invocation' =
          [invocation EXCEPT
              !.state = "returned",
              !.result = InvokeTool(invocation.tool, invocation.cred, invocation.ext)]
    /\ UNCHANGED loop_vars

ToolNext == ToolCall

ToolSpec == ToolInit /\ [][ToolNext]_vars

-----------------------------------------------------------------------------
(* Properties of the investigation loop                                    *)

Done == pc = "end"

C2_IterationWithinBudget == iteration <= max_iterations

\* C2 (amended): in every reachable state of a run iteration <=
\* max(max_iterations, 1), for every non-negative budget: the first reasoning
\* step runs before the cap is looked at, so a budget of 0 ends at iteration 1.
C2_IterationWithinBudgetOrOne == iteration <= Max(max_iterations, 1)

\* a run stopped by the cap while the model still asked for tools
C2_Witness ==
    /\ Done
    /\ max_iterations >= 2
    /\ iteration = max_iterations
    /\ Last(messages).tool_calls # <<>>

\* C3: a step never moves the phase backwards in the order triage < changes
\* < hypothesis < conclusion and moves it forward by at most one position,
\* from any starting iteration and phase.
C3_PhaseMonotone ==
    [][PhaseRank(phase') \in {PhaseRank(phase), PhaseRank(phase) + 1}]_vars

\* a run from iteration 0 that went through the four phases
C3_Witness ==
    /\ cycles = iteration
    /\ phase_log[1] = "triage"
    /\ phase = "conclusion"
    /\ \E i, j \in 1..Len(phase_log) :
          i < j /\ phase_log[i] = "changes" /\ phase_log[j] = "hypothesis"

-----------------------------------------------------------------------------
(* Properties of the evidence store                                        *)

NoDuplicates(s) == \A i, j \in 1..Len(s) : s[i] = s[j] => i = j

\* the deployment records reported by the tool results of the log, in log
\* order
RECURSIVE Reported(_)
Reported(msgs) ==
    IF msgs = <<>> THEN <<>>
    ELSE Head(msgs).content.deployments \o Reported(Tail(msgs))

RECURSIVE FirstOccurrences(_)
FirstOccurrences(s) ==
    IF s = <<>> THEN <<>>
    ELSE LET r == FirstOccurrences(SubSeq(s, 1, Len(s) - 1))
         IN  IF In(Last(s), r) THEN r ELSE Append(r, Last(s))

\* the distinct records reported during the run, in order of discovery
Discovered(msgs) == FirstOccurrences(Reported(msgs))

\* C5: recent_deployments never holds two equal records.
C5_NoDuplicateDeployments == NoDuplicates(recent_deployments)

\* two tool results of one turn reported the same non-empty deployments,
\* one of which repeated a record already merged
C5_Witness ==
    /\ pc = "agent"
    /\ Len(messages) >= 3
    /\ messages[Len(messages)].type = "tool"
    /\ messages[Len(messages) - 1].type = "tool"
    /\ messages[Len(messages)].content.deployments # <<>>
    /\ messages[Len(messages)].content.deployments
          = messages[Len(messages) - 1].content.deployments
    /\ recent_deployments # <<>>

\* C6: recent_deployments never holds more than 20 records.
C6_DeploymentCap == Len(recent_deployments) <= DeploymentCap

\* more than 20 distinct records were reported and 20 are held
C6_Witness ==
    /\ Len(Discovered(messages)) > DeploymentCap
    /\ Len(recent_deployments) = DeploymentCap

\* C7 (as claimed): when more than 20 distinct deployments were merged, the
\* 20 kept are the 20 merged last.
C7_KeepsMostRecent ==
    LET all == Discovered(messages)
    IN  Len(all) > DeploymentCap =>
            recent_deployments = SubSeq(all, Len(all) - DeploymentCap + 1, Len(all))

-----------------------------------------------------------------------------
(* Properties of one tool invocation                                       *)

ToolReturned == invocation.state = "returned"

\* C8: a monitoring, version-control or communication tool invoked with
\* credentials None raises nothing, returns {success: false, error} whose
\* error text contains "not configured", and attempts no external call.
C8_NotConfigured ==
    (ToolReturned /\ invocation.tool \in CredentialTools /\ invocation.cred = "none")
        => /\ ~invocation.result.raised
           /\ invocation.result.content.fmt = "json"
           /\ invocation.result.content.success = "false"
           /\ Contains(invocation.result.content.error, NotConfiguredPhrase)
           /\ invocation.result.calls = 0

\* the Slack report tool returned with credentials None in a world where its
\* API call would have raised
C8_Witness ==
    /\ ToolReturned
    /\ invocation.tool = "send_investigation_result"
    /\ invocation.cred = "none"
    /\ 1 \in invocation.ext.fails
    /\ invocation.result.content.error = SlackNotConfigured

\* C9 (as claimed, on the tools that answer in JSON): when an external call
\* made inside the invocation raised, the invocation raises nothing and
\* returns success = false with the error message, never success = true.
C9_ApiFailureIsStructuredFailure ==
    (ToolReturned /\ invocation.tool \in CredentialTools
                  /\ invocation.result.failed > 0)
        => /\ ~invocation.result.raised
           /\ invocation.result.content.success = "false"
           /\ invocation.result.content.error # <<>>

-----------------------------------------------------------------------------
(* Properties of the run around a failing tool                             *)

IsPrefix(s, t) == Len(s) <= Len(t) /\ SubSeq(t, 1, Len(s)) = s

StructuredFailure(m) ==
    m.type = "tool" /\ m.content.fmt = "json" /\ m.content.success = "false"

\* C11: a tool dispatch never aborts the run, whatever its results: every
\* requested call gets its result message appended to the log, a structured
\* failure included, the reasoning step comes next, and that reasoning step
\* is handed the log with the failure in it.
C11_ToolFailureNotFatal ==
    [][/\ pc = "tools" =>
            /\ pc' = "agent"
            /\ outcome' = NoOutcome
            /\ IsPrefix(messages, messages')
            /\ ~ToolNodeIsNone(creds) =>
                   Len(messages') = Len(messages) + Len(PendingCalls)
       /\ pc = "agent" => llm_input' = messages]_vars

\* the deployment listing failed upstream, its {success: false} result is
\* the last message the following reasoning step was handed, and the run
\* went on from there
C11_Witness ==
    /\ llm_input # <<>>
    /\ StructuredFailure(Last(llm_input))
    /\ Last(llm_input).name = "get_recent_deployments"
    /\ Last(llm_input).content.error = ApiErrorText
    /\ Len(messages) = Len(llm_input) + 1
    /\ pc = "tools"

-----------------------------------------------------------------------------
(* run_investigation (src/graph.py): the entry point around the graph.     *)
(* pc = "create" before create_investigation_graph, "end" once ainvoke     *)
(* has returned the final state, "returned" and "raised" once the entry    *)
(* point has returned a result or let an exception escape.                 *)

\* a text of the model, known by its length
TextOf(m) == [text |-> "assistant message", len |-> m.len]

DefaultSummary == [text |-> "Investigation complete.", len |-> 23]

\* str(e) of what a failing model call raises
LlmErrorText == <<"model", "call", "failed">>

\* str(e) of what the graph runner itself raises
OrchestratorErrorText == <<"graph", "runner", "error">>

\* what building the model client or importing the tools raises
CreateErrorText == <<"graph", "construction", "failed">>

\* int((utcnow() - start_time).total_seconds() * 1000)
Elapsed == "elapsed milliseconds"

\* mutant: a message that requests tools qualifies as a summary
summarize_ignores_tool_calls(msgs) ==
    LET hits == {i \in 1..Len(msgs) :
                    msgs[i].type = "ai" /\ msgs[i].len > SummaryMinLen}
    IN  IF hits = {} THEN DefaultSummary
        ELSE TextOf(msgs[CHOOSE i \in hits : \A j \in hits : i >= j])

\* mutant: the scan starts at the oldest message
summarize_oldest_first(msgs) ==
    LET hits == {i \in 1..Len(msgs) :
                    /\ msgs[i].type = "ai" /\ msgs[i].tool_calls = <<>>
                    /\ msgs[i].len > SummaryMinLen}
    IN  IF hits = {} THEN DefaultSummary
        ELSE TextOf(msgs[CHOOSE i \in hits : \A j \in hits : i <= j])

\* for msg in reversed(messages): the first assistant message without tool
\* calls whose text is longer than 50 characters
\* (one turn of the loop: msg is the loop variable, rest the messages the
\* loop has still to visit)
RECURSIVE summarize(_)
summarize(msgs) ==
    IF msgs = <<>> THEN DefaultSummary
    ELSE CHOOSE out \in
            { IF msg.type = "ai" /\ msg.tool_calls = <<>> /\ msg.len > SummaryMinLen
              THEN TextOf(msg)
              ELSE summarize(rest) :
                  msg \in {msgs[Len(msgs)]},
                  rest \in {SubSeq(msgs, 1, Len(msgs) - 1)} } : TRUE

\* mutant: the except block reports what the state held
FailureResult_partial(err) ==
    [kind |-> "returned",
     value |-> [success |-> FALSE, error |-> err, duration_ms |-> Elapsed,
                summary |-> DefaultSummary]]

\* except Exception as e: return {success, error, duration_ms}
FailureResult(err) ==
    [kind |-> "returned",
     value |-> [success |-> FALSE, error |-> err, duration_ms |-> Elapsed]]

\* mutant: the result counts the tool calls the log requested
SuccessResult_counts_calls(final_messages, final_deployments, final_iteration, final_phase) ==
    [kind |-> "returned",
     value |-> [success |-> TRUE,
                summary |-> summarize(final_messages),
                deployments_found |-> final_deployments,
                tool_calls |->
                    Cardinality({i \in 1..Len(final_messages) :
                                    final_messages[i].tool_calls # <<>>}),
                final_phase |-> final_phase,
                duration_ms |-> Elapsed]]

\* mutant: a log that ends on a tool request is reported as a failure
SuccessResult_needs_final(final_messages, final_deployments, final_iteration, final_phase) ==
    IF final_messages # <<>> /\ final_messages[Len(final_messages)].tool_calls # <<>>
    THEN [kind |-> "returned",
          value |-> [success |-> FALSE, error |-> <<"iteration", "limit">>,
                     duration_ms |-> Elapsed]]
    ELSE [kind |-> "returned",
          value |-> [success |-> TRUE,
                     summary |-> DefaultSummary,
                     deployments_found |-> final_deployments,
                     tool_calls |-> final_iteration,
                     final_phase |-> final_phase,
                     duration_ms |-> Elapsed]]

SuccessResult(final_messages, final_deployments, final_iteration, final_phase) ==
    [kind |-> "returned",
     value |-> [success |-> TRUE,
                summary |-> summarize(final_messages),
                deployments_found |-> final_deployments,
                tool_calls |-> final_iteration,
                final_phase |-> final_phase,
                duration_ms |-> Elapsed]]

Escaped(exc) == [kind |-> "raised", exc |-> exc]

\* create_investigation_graph returned the compiled graph; ainvoke starts
\* at the agent node
create_investigation_graph ==
    /\ pc = "create"
    /\ pc' = "agent"
    /\ UNCHANGED <<messages, phase, iteration, max_iterations, recent_deployments,
                   creds, cycles, phase_log, invocation, llm_input, outcome,
                   prompt, cancelled, peer, identity, affected_services>>

\* create_investigation_graph raised: the call stands before the try block
create_investigation_graph_raises ==
    /\ pc = "create"
    /\ pc' = "raised"
    /\ outcome' = Escaped(CreateErrorText)
    /\ UNCHANGED <<messages, phase, iteration, max_iterations, recent_deployments,
                   creds, cycles, phase_log, invocation, llm_input, prompt,
                   cancelled, peer, identity, affected_services>>

\* a node or the runner raised inside ainvoke: the except block returns
run_investigation_except(err) ==
    /\ pc \in {"agent", "tools"}
    /\ err = LlmErrorText => pc = "agent"
    /\ pc' = "returned"
    /\ outcome' = FailureResult(err)
    /\ UNCHANGED <<messages, phase, iteration, max_iterations, recent_deployments,
                   creds, cycles, phase_log, invocation, llm_input, prompt,
                   cancelled, peer, identity, affected_services>>

\* ainvoke returned the final state: summary extraction and the result
run_investigation_return ==
    /\ pc = "end"
    /\ pc' = "returned"
    /\ outcome' = SuccessResult(messages, recent_deployments, iteration, phase)
    /\ UNCHANGED <<messages, phase, iteration, max_iterations, recent_deployments,
                   creds, cycles, phase_log, invocation, llm_input, prompt,
                   cancelled, peer, identity, affected_services>>

-----------------------------------------------------------------------------
(* RunSpec: run_investigation from its call to its end, with the default   *)
(* budget it hard-codes.  The model answers with a final message (short or *)
(* long) or requests the deployment listing; the first VaryTurns tool      *)
(* dispatches see any API outcome, later ones the first feed.              *)

VaryTurns == 2

RunResponses ==
    FinalResponses \cup {AIMessage(<<"get_recent_deployments">>, SummaryMinLen + 1)}

\* one deployment, as in the listing of a single recent deploy
OneDeployment == <<1>>

RunExts ==
    IF iteration <= VaryTurns
    THEN {ApiRaises, ApiReturns(OneDeployment), ApiReturns(Feed(0))}
    ELSE {ApiReturns(Feed(0))}

\* no credentials at all, GitHub only, all three
RunCredConfigs ==
    {[p \in Providers |-> "none"],
     [p \in Providers |-> IF p = "github" THEN "full" ELSE "none"],
     [p \in Providers |-> "full"]}

RunErrors == {LlmErrorText, OrchestratorErrorText}

RunInit ==
    /\ pc = "create"
    /\ messages = <<>>
    /\ phase = "triage"
    /\ iteration = 0
    /\ max_iterations = MAX_ITERATIONS
    /\ recent_deployments = <<>>
    /\ creds \in RunCredConfigs
    /\ cycles = 0
    /\ phase_log = <<phase>>
    /\ invocation = NoInvocation
    /\ llm_input = <<>>
    /\ outcome = NoOutcome
    /\ prompt = NoPrompt
    /\ cancelled = FALSE
    /\ peer = NoPeer
    /\ identity = Identity(NoService)
    /\ affected_services = InitialServices(identity.alert_context)

RunAgentStep == \E r \in RunResponses : agent_node(r)

RunToolsStep ==
    \E e \in RunExts : tools_node([i \in 1..Len(PendingCalls) |-> e])

RunExcept == \E err \in RunErrors : run_investigation_except(err)

RunNext ==
    \/ create_investigation_graph
    \/ create_investigation_graph_raises
    \/ RunAgentStep
    \/ RunToolsStep
    \/ RunExcept
    \/ run_investigation_return

RunSpec == RunInit /\ [][RunNext]_vars

\* run_investigation is awaited to its end
RunFairSpec == RunSpec /\ WF_vars(RunNext)

-----------------------------------------------------------------------------
(* SummarySpec: the summary extraction of run_investigation applied to any *)
(* final log of up to MaxLog messages.                                     *)

MaxLog == 3

SummaryMessages ==
    {AIMessage(<<>>, n) : n \in {SummaryMinLen, SummaryMinLen + 1, SummaryMinLen + 2}}
    \cup {AIMessage(<<"get_recent_deployments">>, SummaryMinLen + 1),
          ToolMessage("get_recent_deployments", JsonOk(OneDeployment))}

SummaryInit ==
    /\ pc = "end"
    /\ messages \in UNION {[1..n -> SummaryMessages] : n \in 0..MaxLog}
    /\ phase = "triage"
    /\ iteration = 0
    /\ max_iterations = MAX_ITERATIONS
    /\ recent_deployments = <<>>
    /\ creds = [p \in Providers |-> "full"]
    /\ cycles = 0
    /\ phase_log = <<phase>>
    /\ invocation = NoInvocation
    /\ llm_input = <<>>
    /\ outcome = NoOutcome
    /\ prompt = NoPrompt
    /\ cancelled = FALSE
    /\ peer = NoPeer
    /\ identity = Identity(NoService)
    /\ affected_services = InitialServices(identity.alert_context)

SummaryNext == run_investigation_return

SummarySpec == SummaryInit /\ [][SummaryNext]_vars

-----------------------------------------------------------------------------
(* Properties of run_investigation's result                                *)

RunReturned == pc = "returned"

FailureKeys == {"success", "error", "duration_ms"}

SuccessKeys == {"success", "summary", "deployments_found", "tool_calls",
                "final_phase", "duration_ms"}

\* C12: when the reasoning step or the graph runner raises during the loop,
\* no further step of the loop runs and run_investigation returns exactly
\* {success: false, error, duration_ms} with the error text: no summary,
\* deployments_found, tool_calls or final_phase.
C12_ErrorAbortsRun ==
    [][/\ (pc \in {"agent", "tools"} /\ pc' = "returned") =>
            /\ outcome'.kind = "returned"
            /\ DOMAIN outcome'.value = FailureKeys
            /\ outcome'.value.success = FALSE
            /\ outcome'.value.error \in RunErrors
            /\ outcome'.value.duration_ms = Elapsed
            /\ messages' = messages /\ cycles' = cycles
       /\ pc # "returned"]_vars

\* the model call failed in the third cycle, after deployments had been
\* found: the result carries the error and none of them
C12_Witness ==
    /\ RunReturned
    /\ outcome.value.success = FALSE
    /\ outcome.value.error = LlmErrorText
    /\ cycles = 2
    /\ recent_deployments # <<>>

\* C13 (as claimed): every invocation of run_investigation ends by
\* returning a result with success and duration_ms; no failure at any
\* stage, building the graph included, escapes as an exception.
C13_AlwaysReturnsResult ==
    pc \in {"returned", "raised"} =>
        /\ outcome.kind = "returned"
        /\ {"success", "duration_ms"} \subseteq DOMAIN outcome.value

Qualifying(msgs) ==
    {i \in 1..Len(msgs) :
        msgs[i].type = "ai" /\ msgs[i].tool_calls = <<>> /\ msgs[i].len > 50}

\* C15: the summary is the content of the latest qualifying message of the
\* final log, and it is "Investigation complete." exactly when no message
\* qualifies.
C15_SummaryIsLatestQualifying ==
    (RunReturned /\ outcome.value.success) =>
        LET hits == Qualifying(messages)
        IN  /\ hits # {} =>
                \E i \in hits :
                    /\ \A j \in hits : j <= i
                    /\ outcome.value.summary = TextOf(messages[i])
            /\ (outcome.value.summary = DefaultSummary) <=> (hits = {})

\* two different messages qualify, a message that does not qualify follows
\* them, and the later of the two is the summary
C15_Witness ==
    /\ RunReturned
    /\ Len(messages) = 3
    /\ Qualifying(messages) = {1, 2}
    /\ messages[1] # messages[2]
    /\ outcome.value.summary = TextOf(messages[2])

-----------------------------------------------------------------------------
(* The two-cycle scenario: the first reasoning step requests               *)
(* get_recent_deployments, GitHub returns one deployment, the second       *)
(* reasoning step gives a final answer of more than 50 characters.         *)

TwoCycleScenario ==
    /\ ~Falsy(creds.github)
    /\ Len(messages) = 3
    /\ messages[1].type = "ai"
    /\ messages[1].tool_calls = <<"get_recent_deployments">>
    /\ messages[2] = ToolMessage("get_recent_deployments", JsonOk(<<1>>))
    /\ messages[3].type = "ai"
    /\ messages[3].tool_calls = <<>>
    /\ messages[3].len > 50

\* C16: in the two-cycle scenario the graph ends after exactly two
\* reasoning steps, and the result run_investigation returns has
\* success true, the final message as summary, one deployment found,
\* tool_calls 2 and final_phase "triage".
C16_TwoCycleScenario ==
    TwoCycleScenario =>
        /\ pc \in {"end", "returned"}
        /\ cycles = 2
        /\ iteration = 2
        /\ phase = "triage"
        /\ pc = "returned" =>
              /\ outcome.kind = "returned"
              /\ outcome.value.success = TRUE
              /\ outcome.value.summary = TextOf(messages[3])
              /\ Len(outcome.value.deployments_found) = 1
              /\ outcome.value.tool_calls = 2
              /\ outcome.value.final_phase = "triage"

\* the scenario has run to its end and run_investigation has returned
C16_Witness == TwoCycleScenario /\ pc = "returned"

-----------------------------------------------------------------------------
(* Runs without credentials.                                               *)

\* datadog_creds, github_creds and slack_creds are all None
AllAbsent == \A p \in Providers : creds[p] = "none"

NoToolMessage(msgs) == \A i \in 1..Len(msgs) : msgs[i].type # "tool"

-----------------------------------------------------------------------------
\* the transition table of the phases, entry by entry
PhaseTable(p, it) ==
    CASE p = "triage"     -> IF it >= 2 THEN "changes" ELSE "triage"
      [] p = "changes"    -> IF it >= 5 THEN "hypothesis" ELSE "changes"
      [] p = "hypothesis" -> IF it >= 10 THEN "conclusion" ELSE "hypothesis"
      [] p = "conclusion" -> "conclusion"

\* C18: the phase a reasoning step writes is the table's entry for the
\* phase and the iteration count the step started with, whatever else the
\* state holds, and a tool dispatch leaves the phase alone.
C18_PhaseTable ==
    [][IF pc = "agent"
       THEN phase' = PhaseTable(phase, iteration)
       ELSE phase' = phase]_vars

\* a reasoning step that started in hypothesis with iteration exactly 10
\* has moved the run to conclusion
C18_Witness ==
    /\ cycles >= 1
    /\ iteration = 11
    /\ phase_log[Len(phase_log) - 1] = "hypothesis"
    /\ phase = "conclusion"

-----------------------------------------------------------------------------
\* every reasoning step of the run requested tools
EveryStepRequestedTools ==
    \A i \in 1..Len(messages) :
        messages[i].type = "ai" => messages[i].tool_calls # <<>>

\* the run ended by budget exhaustion with the default budget
EndedByBudget ==
    /\ RunReturned
    /\ outcome.value.success = TRUE
    /\ max_iterations = 15
    /\ iteration = max_iterations
    /\ EveryStepRequestedTools

-----------------------------------------------------------------------------
\* a reasoning step has completed: the graph moved on along its edge
ReasoningStepCompleted == pc = "agent" /\ pc' \in {"tools", "end"}

\* C20: the k-th reasoning step of a run (k = 0, 1, 2, ...) starts with
\* iteration = k and, when it completes, leaves iteration = k + 1; no
\* other step of the run (tool dispatch, failure, return) changes
\* iteration.
C20_IterationCountsReasoningSteps ==
    [][IF ReasoningStepCompleted
       THEN iteration = cycles /\ iteration' = iteration + 1
       ELSE iteration' = iteration]_vars

\* three reasoning steps and the tool dispatches between them have run
C20_Witness ==
    /\ pc = "agent"
    /\ cycles = 3
    /\ iteration = 3
    /\ Len(messages) > 3

-----------------------------------------------------------------------------
(* Cancellation.  run_investigation is a coroutine suspended in            *)
(* `await graph.ainvoke(...)` while the graph runs; cancelling the task    *)
(* that awaits it (task.cancel(), or the deadline of asyncio.wait_for)     *)
(* raises CancelledError at that await.  CancelledError derives from       *)
(* BaseException, so `except Exception` does not handle it.                *)

CancelledErrorText == <<"CancelledError">>

run_investigation_cancelled ==
    /\ pc \in {"agent", "tools"}
    /\ cancelled' = TRUE
    /\ pc' = "raised"
    /\ outcome' = Escaped(CancelledErrorText)
    /\ UNCHANGED <<messages, phase, iteration, max_iterations, recent_deployments,
                   creds, cycles, phase_log, invocation, llm_input, prompt, peer,
                   identity, affected_services>>

\* CancelRunSpec: RunSpec with a caller that may cancel at any time
CancelRunNext == RunNext \/ run_investigation_cancelled

CancelRunSpec == RunInit /\ [][CancelRunNext]_vars

\* C21 (as claimed): once the caller has cancelled, run_investigation has
\* yielded a result marked unsuccessful that still carries the deployments
\* gathered so far.
C21_CancelledRunYieldsPartialResult ==
    cancelled =>
        /\ outcome.kind = "returned"
        /\ outcome.value.success = FALSE
        /\ "deployments_found" \in DOMAIN outcome.value
        /\ outcome.value.deployments_found = recent_deployments

-----------------------------------------------------------------------------
(* ConcurrentSpec: two calls of run_investigation in one process, their    *)
(* graph steps interleaved in any order.  Each call builds its own graph   *)
(* (its own model client, tools and ToolNode) and its own initial state;   *)
(* the second call's AgentState is the record peer.                        *)

PeerInitialState(max_iter, c) ==
    [pc |-> "agent", messages |-> <<>>, phase |-> "triage", iteration |-> 0,
     max_iterations |-> max_iter, recent_deployments |-> <<>>, creds |-> c]

PeerPendingCalls ==
    IF peer.messages # <<>> /\ Last(peer.messages).type = "ai"
    THEN Last(peer.messages).tool_calls ELSE <<>>

\* agent_node of the second investigation
peer_agent_node(response) ==
    /\ peer.pc = "agent"
    /\ LET msgs == add_messages(peer.messages, <<response>>)
           it   == peer.iteration + 1
           ph   == advance(peer.phase, peer.iteration)
       IN  peer' = [peer EXCEPT
                      !.messages = msgs, !.iteration = it, !.phase = ph,
                      !.pc = should_continue(msgs, it, peer.max_iterations, ph)]
    /\ UNCHANGED <<pc, messages, phase, iteration, max_iterations,
                   recent_deployments, creds, cycles, phase_log, invocation,
                   llm_input, outcome, prompt, cancelled,
                   identity, affected_services>>

\* mutant: one deployment list serves both investigations
peer_tools_node_shared_store(exts) ==
    /\ peer.pc = "tools"
    /\ IF ToolNodeIsNone(peer.creds)
       THEN /\ peer' = [peer EXCEPT !.pc = "agent"]
            /\ UNCHANGED recent_deployments
       ELSE LET result == ToolNodeInvoke(peer.creds, PeerPendingCalls, exts)
                merged == Truncate(MergeResults(recent_deployments, result))
            IN  /\ peer' = [peer EXCEPT
                              !.messages = add_messages(peer.messages, result),
                              !.recent_deployments = merged,
                              !.pc = "agent"]
                /\ recent_deployments' = merged
    /\ UNCHANGED <<pc, messages, phase, iteration, max_iterations, creds, cycles,
                   phase_log, invocation, llm_input, outcome, prompt, cancelled,
                   identity, affected_services>>

\* tools_node of the second investigation
peer_tools_node(exts) ==
    /\ peer.pc = "tools"
    /\ IF ToolNodeIsNone(peer.creds)
       THEN peer' = [peer EXCEPT
                       !.messages = add_messages(peer.messages, <<>>),
                       !.pc = "agent"]
       ELSE LET result == ToolNodeInvoke(peer.creds, PeerPendingCalls, exts)
            IN  peer' = [peer EXCEPT
                           !.messages = add_messages(peer.messages, result),
                           !.recent_deployments =
                               Truncate(MergeResults(peer.recent_deployments, result)),
                           !.pc = "agent"]
    /\ UNCHANGED <<pc, messages, phase, iteration, max_iterations,
                   recent_deployments, creds, cycles, phase_log, invocation,
                   llm_input, outcome, prompt, cancelled,
                   identity, affected_services>>

\* the model answers finally or requests the deployment tool; the API
\* raises, returns one deployment or returns the second feed
ConcurrentResponses ==
    {AIMessage(<<>>, SummaryMinLen + 1),
     AIMessage(<<"get_recent_deployments">>, SummaryMinLen + 1)}

ConcurrentExts == {ApiRaises, ApiReturns(OneDeployment), ApiReturns(Feed(1))}

\* both investigations hold GitHub credentials, or neither holds any
ConcurrentCreds ==
    {[p \in Providers |-> "none"],
     [p \in Providers |-> IF p = "github" THEN "full" ELSE "none"]}

ConcurrentInit ==
    /\ pc = "agent"
    /\ messages = <<>>
    /\ phase = "triage"
    /\ iteration = 0
    /\ max_iterations \in 1..MaxBudget
    /\ recent_deployments = <<>>
    /\ creds \in ConcurrentCreds
    /\ cycles = 0
    /\ phase_log = <<phase>>
    /\ invocation = NoInvocation
    /\ llm_input = <<>>
    /\ outcome = NoOutcome
    /\ prompt = NoPrompt
    /\ cancelled = FALSE
    /\ \E m \in 1..MaxBudget, c \in ConcurrentCreds :
          peer = PeerInitialState(m, c)
    /\ identity = Identity(NoService)
    /\ affected_services = InitialServices(identity.alert_context)

ConcurrentAgentStep == \E r \in ConcurrentResponses : agent_node(r)

ConcurrentToolsStep ==
    \E e \in ConcurrentExts : tools_node([i \in 1..Len(PendingCalls) |-> e])

PeerAgentStep == \E r \in ConcurrentResponses : peer_agent_node(r)

PeerToolsStep ==
    \E e \in ConcurrentExts :
        peer_tools_node([i \in 1..Len(PeerPendingCalls) |-> e])

ConcurrentNext ==
    \/ ConcurrentAgentStep
    \/ ConcurrentToolsStep
    \/ PeerAgentStep
    \/ PeerToolsStep

ConcurrentSpec == ConcurrentInit /\ [][ConcurrentNext]_vars

\* the number of assistant messages of a log
RECURSIVE AssistantMessages(_)
AssistantMessages(msgs) ==
    IF msgs = <<>> THEN 0
    ELSE (IF Head(msgs).type = "ai" THEN 1 ELSE 0) + AssistantMessages(Tail(msgs))

\* the phase of an investigation that ran k reasoning steps from triage
PhaseAfter(k) ==
    IF k <= 2 THEN "triage"
    ELSE IF k <= 5 THEN "changes"
    ELSE IF k <= 10 THEN "hypothesis"
    ELSE "conclusion"

\* what an investigation running alone holds, given its own message log
AsIfAlone(msgs, it, ph, deps) ==
    /\ it = AssistantMessages(msgs)
    /\ ph = PhaseAfter(it)
    /\ deps = Take(Discovered(msgs), 20)

\* C22: under every interleaving of the steps of two investigations, a
\* step of one leaves the message log, iteration, phase and deployments
\* of the other as they were, and each investigation's iteration, phase
\* and deployments are those its own message log alone determines.
C22_InvestigationsIndependent ==
    [][/\ peer' # peer =>
              UNCHANGED <<messages, iteration, phase, recent_deployments>>
       /\ <<messages, iteration, phase, recent_deployments>>'
              # <<messages, iteration, phase, recent_deployments>> =>
              peer' = peer
       /\ AsIfAlone(messages', iteration', phase', recent_deployments')
       /\ AsIfAlone(peer'.messages, peer'.iteration, peer'.phase,
                    peer'.recent_deployments)]_vars

\* both investigations have dispatched tools, interleaved, and hold
\* different deployments
C22_Witness ==
    /\ recent_deployments = OneDeployment
    /\ peer.recent_deployments # <<>>
    /\ peer.recent_deployments # recent_deployments
    /\ iteration >= 2
    /\ peer.iteration >= 2
    /\ pc = "tools"
    /\ peer.pc = "tools"

-----------------------------------------------------------------------------
\* the tools that write to an external system
SideEffectingTools ==
    {"send_investigation_result", "send_investigation_update",
     "record_runbook_execution"}

\* the external calls one dispatch of the tool makes when none fails: one
\* post for a Slack tool; a lookup, an insert and an update for
\* record_runbook_execution
ExternalCallsOf(tool) == IF tool \in SlackTools THEN 1 ELSE 3

\* the dispatch reports that the write was done
ReportsSuccess(tool, content) ==
    IF tool \in SlackTools THEN content.success = "true"
    ELSE content.text = <<"Runbook execution recorded">>

\* C23: one dispatch of a side-effecting tool makes each of its external
\* calls at most once and in order, makes no call after one has failed (no
\* retry), and reports success only when every write was made exactly
\* once and none failed.
C23_SideEffectsOncePerDispatch ==
    (ToolReturned /\ invocation.tool \in SideEffectingTools) =>
        LET r == invocation.result
            n == ExternalCallsOf(invocation.tool)
            k == FirstFail(n, invocation.ext)
        IN  /\ ~r.raised
            /\ r.calls <= n
            /\ r.failed <= 1
            /\ r.failed = 1 => r.calls = k
            /\ ReportsSuccess(invocation.tool, r.content) =>
                  r.calls = n /\ r.failed = 0

\* a Slack post failed: it was attempted once and the failure reported
C23_Witness ==
    /\ ToolReturned
    /\ invocation.tool = "send_investigation_result"
    /\ invocation.cred = "full"
    /\ invocation.ext.fails = {1}
    /\ invocation.result.calls = 1
    /\ invocation.result.failed = 1
    /\ invocation.result.content.success = "false"

-----------------------------------------------------------------------------
(* The catalogue of the React variant (src/apps/agent/src/graph.py): the   *)
(* memory tools, and the Datadog, GitHub and Slack tools created with the  *)
(* credentials or with None.  create_runbook_tools is imported by neither  *)
(* variant.                                                                *)

ReactTools(c) == MemoryTools \cup DatadogTools \cup GithubTools \cup SlackTools

\* the required tool families
ToolFamilies == {DatadogTools, GithubTools, SlackTools, MemoryTools, RunbookTools}

\* C24 (as claimed): whatever the credentials, the catalogue the graph was
\* created with holds at least one tool of each of the five families, in
\* the state-machine variant and in the React variant.
C24_CatalogueHasEveryFamily ==
    pc \notin {"create", "raised"} =>
        \A family \in ToolFamilies :
            /\ Tools(creds) \cap family # {}
            /\ ReactTools(creds) \cap family # {}

-----------------------------------------------------------------------------
(* MemorySpec: the incident-memory tools of the React variant.  The store  *)
(* is the `investigations` table, read with the service-role key; a tool   *)
(* closes over the org_id create_memory_tools was given and scopes its     *)
(* query with .eq("org_id", org_id) only when that org_id is truthy.       *)

Orgs == {"org-x", "org-y"}

\* org_id: str | None = None
NoOrg == "None"

\* largest number of incident records in the store
MaxIncidents == 2

IncidentRecords == [id : 1..MaxIncidents, org_id : Orgs]

\* the two ways a graph is created: the platform factory graph(config),
\* which passes configurable org_id on, and run_investigation, which calls
\* create_investigation_graph with the three credential bags only
EntryPoints == {"graph", "run_investigation"}

\* the org_id parameter of create_investigation_graph, handed to
\* create_memory_tools
ToolOrgId(entry, org) == IF entry = "graph" THEN org ELSE NoOrg

\* if org_id: query = query.eq("org_id", org_id)
MemoryQuery(store, org_id) ==
    IF org_id # NoOrg THEN {r \in store : r.org_id = org_id} ELSE store

MemoryInit ==
    /\ pc = "end"
    /\ messages = <<>>
    /\ phase = "triage"
    /\ iteration = 0
    /\ max_iterations = MAX_ITERATIONS
    /\ recent_deployments = <<>>
    /\ creds = [p \in Providers |-> "none"]
    /\ cycles = 0
    /\ phase_log = <<phase>>
    /\ llm_input = <<>>
    /\ outcome = NoOutcome
    /\ prompt = NoPrompt
    /\ cancelled = FALSE
    /\ peer = NoPeer
    /\ identity = Identity(NoService)
    /\ affected_services = InitialServices(identity.alert_context)
    /\ \E e \in EntryPoints, o \in Orgs, s \in SUBSET IncidentRecords :
          invocation = [state |-> "start", entry |-> e, org_id |-> o, store |-> s,
                        tool_org_id |-> NoOrg, tool |-> "none", rows |-> {}]

\* create_investigation_graph of the React variant builds the memory tools
create_memory_tools ==
    /\ invocation.state = "start"
    /\ invocation' =
          [invocation EXCEPT
              !.state = "created",
              !.tool_org_id = ToolOrgId(invocation.entry, invocation.org_id)]
    /\ UNCHANGED loop_vars

\* the agent dispatches one incident-memory tool; the rows the query
\* returns are what the tool result is formatted from
memory_query(tool) ==
    /\ invocation.state \in {"created", "returned"}
    /\ invocation' =
          [invocation EXCEPT
              !.state = "returned",
              !.tool = tool,
              !.rows = MemoryQuery(invocation.store, invocation.tool_org_id)]
    /\ UNCHANGED loop_vars

MemoryNext ==
    \/ create_memory_tools
    \/ \E t \in MemoryTools : memory_query(t)

MemorySpec == MemoryInit /\ [][MemoryNext]_vars

\* C25 (as claimed): the rows an incident-memory tool reads during an
\* investigation of organization X all belong to X.
C25_MemoryScopedToOrg ==
    invocation.state = "returned" =>
        \A r \in invocation.rows : r.org_id = invocation.org_id

-----------------------------------------------------------------------------
(* CredentialSpec: credential lookup (src/apps/agent/src/credentials.py)   *)
(* and its use by create_investigation_graph of the React variant.         *)

\* What the vault does for one (org_id, provider):
\*   key_missing         SUPABASE_SERVICE_ROLE_KEY is unset
\*   rpc_raises          the get_integration_secrets call raises
\*   rpc_data            the call returns the secrets
\*   fallback_raises     the call returns nothing and the direct query raises
\*   no_secret           the call and the direct query return nothing
\*   fallback_malformed  the direct query returns rows without a "name"
\*   fallback_secrets    the direct query returns the secrets
VaultKinds ==
    {"key_missing", "rpc_raises", "rpc_data", "fallback_raises", "no_secret",
     "fallback_malformed", "fallback_secrets"}

\* the secrets found hold every key the provider needs, or lack one
VaultCases ==
    {[kind |-> k, bag |-> "none"] :
        k \in VaultKinds \ {"rpc_data", "fallback_secrets"}}
    \cup {[kind |-> k, bag |-> b] :
            k \in {"rpc_data", "fallback_secrets"}, b \in {"partial", "full"}}

LookupReturns(v) == [raised |-> FALSE, value |-> v]

LookupRaises == [raised |-> TRUE, value |-> "none"]

\* mutant: the client is created before the try block
get_integration_credentials_client_outside_try(v) ==
    IF v.kind = "key_missing" THEN LookupRaises
    ELSE IF v.kind \in {"rpc_raises", "fallback_raises", "fallback_malformed"}
         THEN LookupReturns("none")
    ELSE IF v.kind = "no_secret" THEN LookupReturns("none")
    ELSE LookupReturns(v.bag)

\* the whole body is one try block; except Exception: print, return None
get_integration_credentials(v) ==
    LET body ==
            IF v.kind \in {"key_missing", "rpc_raises", "fallback_raises",
                           "fallback_malformed"}
            THEN LookupRaises
            ELSE IF v.kind = "no_secret" THEN LookupReturns("none")
            ELSE LookupReturns(v.bag)
    IN  IF body.raised THEN LookupReturns("none") ELSE body

\* get_datadog_credentials and the like: `if creds and <key> in creds`
get_provider_credentials(v) ==
    LET found == get_integration_credentials(v)
    IN  IF found.raised THEN found
        ELSE IF found.value = "full" THEN LookupReturns("full")
        ELSE LookupReturns("none")

get_all_credentials(vault) ==
    [p \in Providers |-> get_provider_credentials(vault[p])]

\* create_investigation_graph, lines 216-228: the vault is asked when an
\* org_id is given and a credential bag is None; an exception of the lookup
\* is printed as a warning and the given bags are kept
FetchFromVault(org_id, given, vault) ==
    IF org_id # NoOrg /\ \E p \in Providers : given[p] = "none"
    THEN LET vault_creds == get_all_credentials(vault)
         IN  IF \E p \in Providers : vault_creds[p].raised THEN given
             ELSE [p \in Providers |->
                      IF given[p] = "none" THEN vault_creds[p].value ELSE given[p]]
    ELSE given

\* lines 230-240: datadog_creds still None and DD_API_KEY, DD_APP_KEY set
\* what the process environment configures: nothing, Datadog (DD_API_KEY
\* and DD_APP_KEY) alone, or every provider
EnvCases ==
    {[p \in Providers |-> FALSE],
     [p \in Providers |-> p = "datadog"],
     [p \in Providers |-> TRUE]}

EnvFallback(c, env) ==
    IF c.datadog = "none" /\ env.datadog
    THEN [c EXCEPT !.datadog = "full"] ELSE c

CredentialInit ==
    /\ pc = "end"
    /\ messages = <<>>
    /\ phase = "triage"
    /\ iteration = 0
    /\ max_iterations = MAX_ITERATIONS
    /\ recent_deployments = <<>>
    /\ creds = [p \in Providers |-> "none"]
    /\ cycles = 0
    /\ phase_log = <<phase>>
    /\ llm_input = <<>>
    /\ outcome = NoOutcome
    /\ prompt = NoPrompt
    /\ cancelled = FALSE
    /\ peer = NoPeer
    /\ identity = Identity(NoService)
    /\ affected_services = InitialServices(identity.alert_context)
    /\ \E o \in {NoOrg, "org-x"}, g \in RunCredConfigs,
          v \in [Providers -> VaultCases], k \in BOOLEAN, e \in EnvCases :
          invocation = [state |-> "start", org_id |-> o, given |-> g, vault |-> v,
                        model_key |-> k, env |-> e, lookups |-> <<>>,
                        agent_creds |-> g]

\* model = ChatOpenAI(..., api_key=OPENROUTER_API_KEY): raises when the key
\* is unset
react_model_client ==
    /\ invocation.state = "start"
    /\ invocation' =
          [invocation EXCEPT
              !.state = IF invocation.model_key THEN "model" ELSE "raised"]
    /\ UNCHANGED loop_vars

\* the vault lookup and the environment fallback of
\* create_investigation_graph; lookups: what get_integration_credentials
\* returned for each provider
react_fetch_credentials ==
    /\ invocation.state = "model"
    /\ invocation' =
          [invocation EXCEPT
              !.state = "fetched",
              !.lookups =
                  IF invocation.org_id # NoOrg
                     /\ \E p \in Providers : invocation.given[p] = "none"
                  THEN [p \in Providers |->
                           get_integration_credentials(invocation.vault[p])]
                  ELSE <<>>,
              !.agent_creds =
                  EnvFallback(FetchFromVault(invocation.org_id, invocation.given,
                                             invocation.vault),
                              invocation.env)]
    /\ UNCHANGED loop_vars

\* the tools are created and create_react_agent returns the agent
react_create_agent ==
    /\ invocation.state = "fetched"
    /\ invocation' = [invocation EXCEPT !.state = "created"]
    /\ UNCHANGED loop_vars

CredentialNext ==
    \/ react_model_client
    \/ react_fetch_credentials
    \/ react_create_agent

CredentialSpec == CredentialInit /\ [][CredentialNext]_vars

\* the vault cannot answer, or holds nothing, for this provider
VaultFails(v) ==
    v.kind \in {"key_missing", "rpc_raises", "fallback_raises", "no_secret",
                "fallback_malformed"}

\* C26: every lookup made returns, raising nothing, a credential bag or
\* None, and None when the vault is unreachable, the service key is
\* missing or no secret exists; and whatever the vault does, a graph
\* creation whose model client was built goes on to return the agent.
C26_CredentialLookupNeverFails ==
    /\ invocation.state \in {"fetched", "created"} /\ invocation.lookups # <<>> =>
          \A p \in Providers :
              /\ ~invocation.lookups[p].raised
              /\ invocation.lookups[p].value \in {"none", "partial", "full"}
              /\ VaultFails(invocation.vault[p]) =>
                     invocation.lookups[p].value = "none"
    /\ invocation.state = "raised" => ~invocation.model_key

\* the service key is missing, the vault was asked for all three providers
\* and the agent was returned without credentials
C26_Witness ==
    /\ invocation.state = "created"
    /\ invocation.lookups # <<>>
    /\ \A p \in Providers : invocation.vault[p].kind = "key_missing"
    /\ invocation.agent_creds = [p \in Providers |-> "none"]

-----------------------------------------------------------------------------
(* Properties of the input built by a reasoning step.  After a reasoning   *)
(* step, iteration - 1 is the iteration the step started with.             *)

PromptBuilt == prompt.kind # "none"

\* C27 (as claimed): the input of a cycle carries the warning exactly when
\* the cycle's starting iteration is at least max_iterations - 3.
C27_WarningIffNearLimit ==
    PromptBuilt =>
        (prompt.warning <=> iteration - 1 >= max_iterations - 3)

\* C27 (amended): the input of a cycle carries the warning exactly when
\* the cycle's starting iteration is at least max_iterations - 3 and is
\* not 0; the first cycle's input is the begin instruction, which never
\* carries it.
C27_WarningIffNearLimitAfterFirst ==
    PromptBuilt =>
        (prompt.warning <=>
            (iteration - 1 >= max_iterations - 3 /\ iteration - 1 > 0))

\* with the default budget the cycle that starts at iteration 12 is warned
\* and the run goes on
C27_Witness ==
    /\ max_iterations = 15
    /\ iteration = 13
    /\ prompt.kind = "context"
    /\ prompt.warning
    /\ pc = "tools"

\* the parts of the generic context block
ContextParts ==
    {"phase", "iteration", "max_iterations", "alert", "deployments", "goal"}

\* C28: the cycle that starts with iteration 0 is given the begin
\* instruction and no context block; every cycle that starts with a larger
\* iteration is given the context block (phase, iteration/max_iterations,
\* alert, deployments, phase goal) of its own starting state and no begin
\* instruction.
C28_BeginOnlyAtFirstCycle ==
    PromptBuilt =>
        /\ prompt.kind \in {"begin", "context"}
        /\ prompt.kind = "begin" <=> iteration - 1 = 0
        /\ prompt.kind = "context" <=> iteration - 1 > 0
        /\ prompt.kind = "begin" => DOMAIN prompt \cap ContextParts = {"alert"}
        /\ prompt.kind = "context" =>
              /\ ContextParts \subseteq DOMAIN prompt
              /\ prompt.iteration = iteration - 1
              /\ prompt.max_iterations = max_iterations
              /\ prompt.phase = phase_log[Len(phase_log) - 1]
              /\ prompt.goal = prompt.phase

\* a run started at iteration 0 is in its third cycle: the first got the
\* begin instruction, this one the context block
C28_Witness ==
    /\ cycles = 3
    /\ iteration = 3
    /\ prompt.kind = "context"
    /\ prompt.iteration = 2

\* Age of a deployment record.  Record ToolDeploymentLimit * k + i is the
\* i-th record of the k-th feed; a feed lists its records newest first, and
\* at equal positions the record of the later feed is the newer one (the
\* feeds are the listings of repositories that deploy one after the other).
PositionInFeed(d) == (d - 1) % ToolDeploymentLimit

FeedOf(d) == (d - 1) \div ToolDeploymentLimit

Newer(a, b) ==
    \/ PositionInFeed(a) < PositionInFeed(b)
    \/ PositionInFeed(a) = PositionInFeed(b) /\ FeedOf(a) > FeedOf(b)

Range(s) == {s[i] : i \in 1..Len(s)}

\* the n newest records of a list without duplicates
Newest(s, n) ==
    {d \in Range(s) : Cardinality({e \in Range(s) : Newer(e, d)}) < n}

\* C29 (as claimed): the context block lists at most 5 deployment records,
\* and when the step read more than 5 records the ones listed are the 5
\* newest of them.
C29_ContextListsFiveMostRecent ==
    (prompt.kind = "context" /\ pc \in {"tools", "end"}) =>
        /\ Len(prompt.deployments) <= 5
        /\ Len(recent_deployments) > 5 =>
              Range(prompt.deployments) = Newest(recent_deployments, 5)

-----------------------------------------------------------------------------
\* C30: every step leaves the previous message log as a prefix of the new
\* one; a reasoning step appends exactly one message, an assistant
\* message, and a tool-dispatch step appends tool-result messages only.
C30_LogAppendOnly ==
    [][/\ IsPrefix(messages, messages')
       /\ pc = "agent" =>
              /\ Len(messages') = Len(messages) + 1
              /\ messages'[Len(messages')].type = "ai"
       /\ pc = "tools" =>
              \A i \in (Len(messages) + 1)..Len(messages') :
                  messages'[i].type = "tool"]_vars

\* a dispatch has appended two tool results after the assistant message
\* that requested them, and a later reasoning step one more message
C30_Witness ==
    /\ Len(messages) = 4
    /\ messages[1].type = "ai"
    /\ messages[2].type = "tool"
    /\ messages[3].type = "tool"
    /\ messages[4].type = "ai"

-----------------------------------------------------------------------------
(* ServiceSpec: runs as run_investigation starts them for an alert that    *)
(* names a service or none, in which the model asks for the APM summary of *)
(* a service.                                                              *)

\* alert_context.get("service"): absent, empty, or the alerting service
AlertServices == {NoService, "", "checkout"}

\* the model answers finally or requests one APM summary
ServiceResponses ==
    FinalResponses
    \cup {AIMessage(<<"get_apm_service_summary">>, SummaryMinLen + 1)}

\* none, one or all of the three metric queries fail
ServiceExts == {[fails |-> f, data |-> <<>>] : f \in {{}, {1}, {1, 2, 3}}}

\* no tool at all, or the Datadog tools alone
ServiceCreds ==
    {[p \in Providers |-> "none"],
     [p \in Providers |-> IF p = "datadog" THEN "full" ELSE "none"]}

ServiceInit ==
    /\ pc = "agent"
    /\ messages = <<>>
    /\ phase = "triage"
    /\ iteration = 0
    /\ max_iterations \in 1..MaxBudget
    /\ recent_deployments = <<>>
    /\ creds \in ServiceCreds
    /\ cycles = 0
    /\ phase_log = <<phase>>
    /\ invocation = NoInvocation
    /\ llm_input = <<>>
    /\ outcome = NoOutcome
    /\ prompt = NoPrompt
    /\ cancelled = FALSE
    /\ peer = NoPeer
    /\ identity \in {Identity(s) : s \in AlertServices}
    /\ affected_services = InitialServices(identity.alert_context)

ServiceAgentStep == \E r \in ServiceResponses : agent_node(r)

ServiceToolsStep ==
    \E exts \in [1..Len(PendingCalls) -> ServiceExts] : tools_node(exts)

ServiceNext == ServiceAgentStep \/ ServiceToolsStep

ServiceSpec == ServiceInit /\ [][ServiceNext]_vars

-----------------------------------------------------------------------------
\* C31: a reasoning step changes only the message log, iteration and phase
\* (recent_deployments unchanged); a tool-dispatch step changes only the
\* message log and recent_deployments (iteration and phase unchanged);
\* investigation_id, org_id, alert_context, max_iterations and started_at
\* are never changed by any step.
C31_StepFrames ==
    [][/\ identity' = identity
       /\ max_iterations' = max_iterations
       /\ pc = "agent" =>
            UNCHANGED <<recent_deployments, affected_services, creds>>
       /\ pc = "tools" =>
            UNCHANGED <<iteration, phase, affected_services, creds>>]_vars

\* both kinds of step have run for an alert that names a service, and the
\* tool step returned a result
C31_Witness ==
    /\ identity.alert_context.service = "checkout"
    /\ iteration = 2
    /\ \E i \in 1..Len(messages) : messages[i].type = "tool"

-----------------------------------------------------------------------------
\* the services named by the tool results of a log
ServicesFound(msgs) ==
    UNION {Range(msgs[i].content.services) :
             i \in {j \in 1..Len(msgs) : msgs[j].type = "tool"}}

\* C32: affected_services is seeded at creation with alert_context.service
\* (empty when the alert has no service) and service data found in tool
\* results is merged into it, so at the end of a run it contains the seed
\* plus every service discovered by the tools.
C32_ServicesAccumulate ==
    /\ cycles = 0 =>
         affected_services = InitialServices(identity.alert_context)
    /\ pc = "end" =>
         Range(affected_services) =
             Range(InitialServices(identity.alert_context))
             \cup ServicesFound(messages)

-----------------------------------------------------------------------------
\* what the vault supplies for a provider to an organisation
VaultSupplies(org_id, v) ==
    IF org_id # NoOrg THEN get_provider_credentials(v).value ELSE "none"

\* the credentials a provider ends with under the stated precedence
Precedence(given, org_id, v, env) ==
    IF given # "none" THEN given
    ELSE IF VaultSupplies(org_id, v) # "none" THEN VaultSupplies(org_id, v)
    ELSE IF env THEN "full"
    ELSE "none"

\* C33: credential resolution follows a fixed precedence per provider:
\* credentials passed by the caller are never replaced; a provider left None
\* is filled from the vault when org_id is given; a provider still None
\* falls back to the environment configuration; it stays None only when
\* none of the three supplies it.
C33_CredentialPrecedence ==
    invocation.state \in {"fetched", "created"} =>
        \A p \in Providers :
            invocation.agent_creds[p] =
                Precedence(invocation.given[p], invocation.org_id,
                           invocation.vault[p], invocation.env[p])

-----------------------------------------------------------------------------
(* The react-agent entry point (src/apps/agent/src/graph.py):              *)
(* run_investigation hands the agent one user message and extracts the     *)
(* summary from the log the agent returns.                                 *)

\* the initial message: a fixed text of several hundred characters around
\* the alert fields, always longer than the summary threshold
InitialMessage ==
    [type |-> "human", tool_calls |-> <<>>, name |-> "",
     len |-> SummaryMinLen + 1, content |-> PlainText(<<>>)]

\* a tool result of the agent's log: a string of n characters
ReactToolMessage(n) ==
    [ToolMessage("search_similar_incidents", JsonOk(<<>>)) EXCEPT !.len = n]

\* msg.content as the summary reports it
ContentOf(m) ==
    IF m.type = "ai" THEN TextOf(m)
    ELSE [text |-> IF m.type = "human" THEN "initial message" ELSE "tool result",
          len |-> m.len]

\* for msg in reversed(messages): the first message whose content is a
\* string longer than 50 characters and whose tool_calls, if it has the
\* attribute, is empty
RECURSIVE react_summarize(_)
react_summarize(msgs) ==
    IF msgs = <<>> THEN DefaultSummary
    ELSE CHOOSE out \in
            { IF msg.len > SummaryMinLen /\ msg.tool_calls = <<>>
              THEN ContentOf(msg)
              ELSE react_summarize(rest) :
                  msg \in {msgs[Len(msgs)]},
                  rest \in {SubSeq(msgs, 1, Len(msgs) - 1)} } : TRUE

\* one round of the agent: an assistant message requesting a tool and the
\* tool's result, each at most or more than SummaryMinLen characters long
ReactRounds ==
    {<<AIMessage(<<"search_similar_incidents">>, a), ReactToolMessage(t)>> :
        a \in {SummaryMinLen, SummaryMinLen + 1},
        t \in {SummaryMinLen, SummaryMinLen + 1}}

RECURSIVE Flatten(_)
Flatten(ss) == IF ss = <<>> THEN <<>> ELSE Head(ss) \o Flatten(Tail(ss))

\* the logs the agent returns: the initial message, up to MaxLog rounds and
\* the final assistant message
ReactLogs ==
    {<<InitialMessage>> \o Flatten(rounds) \o <<final>> :
        rounds \in UNION {[1..n -> ReactRounds] : n \in 0..MaxLog},
        final \in FinalResponses}

ReactInit ==
    /\ pc = "react_invoke"
    /\ messages = <<InitialMessage>>
    /\ phase = "triage"
    /\ iteration = 0
    /\ max_iterations = MAX_ITERATIONS
    /\ recent_deployments = <<>>
    /\ creds = [p \in Providers |-> "none"]
    /\ cycles = 0
    /\ phase_log = <<phase>>
    /\ invocation = NoInvocation
    /\ llm_input = <<>>
    /\ outcome = NoOutcome
    /\ prompt = NoPrompt
    /\ cancelled = FALSE
    /\ peer = NoPeer
    /\ identity = Identity(NoService)
    /\ affected_services = InitialServices(identity.alert_context)

\* result = await agent.ainvoke(...) returned the final log
react_agent_ainvoke(log) ==
    /\ pc = "react_invoke"
    /\ messages' = log
    /\ pc' = "react_done"
    /\ UNCHANGED <<phase, iteration, max_iterations, recent_deployments, creds,
                   cycles, phase_log, invocation, llm_input, outcome, prompt,
                   cancelled, peer, identity, affected_services>>

\* agent.ainvoke raised: the except block returns the failure
react_run_investigation_except ==
    /\ pc = "react_invoke"
    /\ pc' = "returned"
    /\ outcome' = FailureResult(LlmErrorText)
    /\ UNCHANGED <<messages, phase, iteration, max_iterations, recent_deployments,
                   creds, cycles, phase_log, invocation, llm_input, prompt,
                   cancelled, peer, identity, affected_services>>

\* summary extraction and the result of the react entry point
react_run_investigation_return ==
    /\ pc = "react_done"
    /\ pc' = "returned"
    /\ outcome' =
          [kind |-> "returned",
           value |-> [success |-> TRUE, summary |-> react_summarize(messages),
                      duration_ms |-> Elapsed]]
    /\ UNCHANGED <<messages, phase, iteration, max_iterations, recent_deployments,
                   creds, cycles, phase_log, invocation, llm_input, prompt,
                   cancelled, peer, identity, affected_services>>

ReactNext ==
    \/ \E log \in ReactLogs : react_agent_ainvoke(log)
    \/ react_run_investigation_except
    \/ react_run_investigation_return

ReactSpec == ReactInit /\ [][ReactNext]_vars

\* C34: in the react-agent entry point the returned summary is always
\* either the content of an assistant message of the final log that has no
\* tool calls and is longer than 50 characters, or the default
\* "Investigation complete."; it is never the content of the initial user
\* message or of a tool-result message.
C34_ReactSummaryFromAssistant ==
    (pc = "returned" /\ outcome.value.success) =>
        \/ outcome.value.summary = DefaultSummary
        \/ \E i \in 1..Len(messages) :
              /\ messages[i].type = "ai"
              /\ messages[i].tool_calls = <<>>
              /\ messages[i].len > SummaryMinLen
              /\ outcome.value.summary = TextOf(messages[i])

-----------------------------------------------------------------------------
\* positions of the assistant messages without tool calls
FinalAnswers(msgs) ==
    {i \in 1..Len(msgs) : msgs[i].type = "ai" /\ msgs[i].tool_calls = <<>>}

\* C35: in every reachable state of a run the message log contains at most
\* one assistant message without tool calls, and if it contains one it is
\* the last message of the log and the run has ended.
C35_OneFinalAnswerAtEnd ==
    /\ Cardinality(FinalAnswers(messages)) <= 1
    /\ FinalAnswers(messages) # {} =>
          /\ FinalAnswers(messages) = {Len(messages)}
          /\ pc \in {"end", "returned"}

\* a run answered finally after two rounds of tool calls and returned
C35_Witness ==
    /\ pc = "returned"
    /\ outcome.value.success
    /\ Len(messages) >= 5
    /\ FinalAnswers(messages) = {Len(messages)}

-----------------------------------------------------------------------------
\* positions of the assistant messages that request tools
Requests(msgs) ==
    {i \in 1..Len(msgs) : msgs[i].type = "ai" /\ msgs[i].tool_calls # <<>>}

\* the request at position i is followed by one result per call, in call
\* order, and then by no further result
Answered(msgs, i) ==
    LET calls == msgs[i].tool_calls
    IN  /\ i + Len(calls) <= Len(msgs)
        /\ \A k \in 1..Len(calls) :
              /\ msgs[i + k].type = "tool"
              /\ msgs[i + k].name = calls[k]
        /\ i + Len(calls) < Len(msgs) => msgs[i + Len(calls) + 1].type = "ai"

\* the run has ended
RunEnded == pc \in {"end", "returned"}

\* the graph is about to dispatch the calls of the last message
DispatchPending(msgs, i) == i = Len(msgs) /\ pc = "tools"

CutOffByBudget(msgs, i) ==
    /\ i = Len(msgs)
    /\ iteration >= max_iterations
    /\ RunEnded
    /\ outcome.kind = "returned" => outcome.value.success

\* the run was aborted by an exception before the dispatch
Aborted(msgs, i) ==
    /\ i = Len(msgs)
    /\ outcome.kind = "returned"
    /\ ~outcome.value.success

-----------------------------------------------------------------------------
\* the run returned a success and the last message of its log requests tools
EndedOnRequest ==
    /\ pc = "returned"
    /\ outcome.value.success
    /\ messages # <<>>
    /\ Last(messages).type = "ai"
    /\ Last(messages).tool_calls # <<>>

-----------------------------------------------------------------------------
\* the tool calls the assistant messages of a log request
RECURSIVE RequestedCalls(_)
RequestedCalls(msgs) ==
    IF msgs = <<>> THEN 0
    ELSE Len(Last(msgs).tool_calls)
         + RequestedCalls(SubSeq(msgs, 1, Len(msgs) - 1))

\* C38: in a successful result, tool_calls equals the final iteration
\* counter, i.e. the number of reasoning steps completed in the run,
\* independently of how many tool calls were requested or dispatched: it is
\* 1 for a run with no tool call.
C38_ToolCallsIsStepCount ==
    (pc = "returned" /\ outcome.value.success) =>
        /\ outcome.value.tool_calls = iteration
        /\ outcome.value.tool_calls = cycles
        /\ outcome.value.tool_calls = AssistantMessages(messages)
        /\ RequestedCalls(messages) = 0 => outcome.value.tool_calls = 1

\* a run that requested two tools in three reasoning steps reports 3, and
\* so differs from the number of calls
C38_Witness ==
    /\ pc = "returned"
    /\ outcome.value.success
    /\ outcome.value.tool_calls = 3
    /\ RequestedCalls(messages) = 2

-----------------------------------------------------------------------------
(* RunbookSpec: record_runbook_execution step by step                      *)
(* (src/apps/agent/src/tools/runbooks.py), dispatched by several callers   *)
(* against one store.  Each external call (the lookup, the insert into     *)
(* runbook_executions, the update of runbooks) is one step and may raise.  *)

\* the dispatches explored
MaxDispatches == 2

Dispatches == 1..MaxDispatches

\* a times_triggered column that is null
Null == -1

\* times_triggered of the runbook row before the dispatches: null or a count
InitialTriggered == {Null, 0, 1}

\* a dispatch that has not reached its first external call (runbook: the
\* times_triggered of the row the lookup returned, none yet)
NotStarted == [at |-> "lookup", runbook |-> Null, inserted |-> FALSE,
               updated |-> FALSE, returned |-> "nothing"]

RunbookInit ==
    /\ pc = "end"
    /\ messages = <<>>
    /\ phase = "triage"
    /\ iteration = 0
    /\ max_iterations = MAX_ITERATIONS
    /\ recent_deployments = <<>>
    /\ creds = [p \in Providers |-> "none"]
    /\ cycles = 0
    /\ phase_log = <<phase>>
    /\ llm_input = <<>>
    /\ outcome = NoOutcome
    /\ prompt = NoPrompt
    /\ cancelled = FALSE
    /\ peer = NoPeer
    /\ identity = Identity(NoService)
    /\ affected_services = InitialServices(identity.alert_context)
    /\ \E found \in BOOLEAN, t \in InitialTriggered :
          invocation =
              [state |-> "runbooks",
               exists |-> found,
               initial |-> t,
               times_triggered |-> t,
               executions |-> 0,
               dispatch |-> [d \in Dispatches |-> NotStarted]]

\* the dispatch leaves through `return`
Return(d, text) ==
    [invocation.dispatch EXCEPT ![d].at = "done", ![d].returned = text]

\* get_supabase_client or the select raised: the except block returns
runbook_lookup_raises(d) ==
    /\ invocation.state = "runbooks"
    /\ invocation.dispatch[d].at = "lookup"
    /\ invocation' = [invocation EXCEPT !.dispatch = Return(d, "Error recording execution:")]
    /\ UNCHANGED loop_vars

\* query.limit(1).execute(): no row, or the row with its times_triggered
runbook_lookup(d) ==
    /\ invocation.state = "runbooks"
    /\ invocation.dispatch[d].at = "lookup"
    /\ invocation' =
          IF ~invocation.exists
          THEN [invocation EXCEPT !.dispatch = Return(d, "not found. Execution not recorded.")]
          ELSE [invocation EXCEPT
                   !.dispatch[d].at = "insert",
                   !.dispatch[d].runbook = invocation.times_triggered]
    /\ UNCHANGED loop_vars

\* the insert into runbook_executions raised
runbook_insert_raises(d) ==
    /\ invocation.state = "runbooks"
    /\ invocation.dispatch[d].at = "insert"
    /\ invocation' = [invocation EXCEPT !.dispatch = Return(d, "Error recording execution:")]
    /\ UNCHANGED loop_vars

\* supabase.from_("runbook_executions").insert(execution_data).execute()
runbook_insert(d) ==
    /\ invocation.state = "runbooks"
    /\ invocation.dispatch[d].at = "insert"
    /\ invocation' =
          [invocation EXCEPT
              !.executions = @ + 1,
              !.dispatch[d].at = "update",
              !.dispatch[d].inserted = TRUE]
    /\ UNCHANGED loop_vars

\* the update of the runbooks row raised
runbook_update_raises(d) ==
    /\ invocation.state = "runbooks"
    /\ invocation.dispatch[d].at = "update"
    /\ invocation' = [invocation EXCEPT !.dispatch = Return(d, "Error recording execution:")]
    /\ UNCHANGED loop_vars

\* (runbook.get("times_triggered") or 0) + 1
NextTriggered(runbook) == (IF runbook = Null THEN 0 ELSE runbook) + 1

\* update({"times_triggered": ...}).eq("id", runbook_id).execute(), then the
\* confirmation is returned
runbook_update(d) ==
    /\ invocation.state = "runbooks"
    /\ invocation.dispatch[d].at = "update"
    /\ invocation' =
          [invocation EXCEPT
              !.times_triggered = NextTriggered(invocation.dispatch[d].runbook),
              !.dispatch =
                  [Return(d, "Runbook execution recorded") EXCEPT
                      ![d].updated = TRUE]]
    /\ UNCHANGED loop_vars

RunbookNext ==
    \E d \in Dispatches :
        \/ runbook_lookup_raises(d)
        \/ runbook_lookup(d)
        \/ runbook_insert_raises(d)
        \/ runbook_insert(d)
        \/ runbook_update_raises(d)
        \/ runbook_update(d)

RunbookSpec == RunbookInit /\ [][RunbookNext]_vars

\* the dispatches that have returned the confirmation
Recorded ==
    {d \in Dispatches :
        invocation.dispatch[d].returned = "Runbook execution recorded"}

\* every dispatch that started has returned, and returned the confirmation
AllReportedSuccess ==
    \A d \in Dispatches :
        \/ invocation.dispatch[d] = NotStarted
        \/ d \in Recorded

\* the count a times_triggered value stands for
Count(t) == IF t = Null THEN 0 ELSE t

\* C39: for a given runbook, after any interleaving of k
\* record_runbook_execution dispatches that all report success,
\* times_triggered has increased by exactly k and exactly k execution
\* records exist for it.
C39_CountsEveryExecution ==
    AllReportedSuccess =>
        /\ Count(invocation.times_triggered)
              = Count(invocation.initial) + Cardinality(Recorded)
        /\ invocation.executions = Cardinality(Recorded)

\* C40: record_runbook_execution is all-or-nothing: when it returns an
\* error text ("Error recording execution" or runbook not found), no
\* execution record was inserted and times_triggered was not incremented.
C40_AllOrNothing ==
    \A d \in Dispatches :
        invocation.dispatch[d].returned
            \in {"Error recording execution:", "not found. Execution not recorded."}
        => /\ ~invocation.dispatch[d].inserted
           /\ ~invocation.dispatch[d].updated

====
